---------------------------- MODULE Spec2Model ----------------------------
(***************************************************************************)
(* A model of src/app.py (GalculatorPlus): the sidebar that edits the      *)
(* portfolio list, the orchestration of one backtest run (common start     *)
(* date) and the day-by-day portfolio simulation.                          *)
(*                                                                         *)
(* Money, prices and rates are Python floats in the source.  They are      *)
(* modelled as exact rationals <<n, d>> in lowest terms with d > 0; the    *)
(* pair <<0, 0>> stands for NaN (a missing observation).  Share counts are *)
(* floats holding whole numbers in the source and integers here.           *)
(*                                                                         *)
(* A rational stands for the double of the same value, so the amounts the  *)
(* model works with are binary fractions: prices of 1, 2, 3 and 1/16,      *)
(* weights of 50% and 100%, a withdrawal rate of 75% (a month's target is  *)
(* value * 0.75 / 12 = value / 16) and an inflation of 12.5%.  On these    *)
(* the float operations of the day loop round nothing and the floor, ceil  *)
(* and int of a quotient are those of the exact quotient.  A decimal such  *)
(* as 0.05 or 0.4 is no double, and the source computing with it rounds.   *)
(***************************************************************************)
EXTENDS Integers, Sequences, FiniteSets, TLC

\* ------------------------------------------------------------------------
\* Bounds of the model and the small sets inputs are drawn from
\* ------------------------------------------------------------------------

\* number of trading days of the date axis that one simulation walks
MaxDays == 3

\* ------------------------------------------------------------------------
\* Exact rational arithmetic (the model of Python float arithmetic)
\* ------------------------------------------------------------------------

Abs(i) == IF i < 0 THEN -i ELSE i

Min(a, b) == IF a <= b THEN a ELSE b

RECURSIVE GCD(_, _)
GCD(a, b) == IF b = 0 THEN a ELSE GCD(b, a % b)

Norm(n, d) == LET g == GCD(Abs(n), d) IN <<n \div g, d \div g>>

Rat(i) == <<i, 1>>

Frac(n, d) == Norm(n, d)

Zero == <<0, 1>>

NaN == <<0, 0>>

isna(x) == x[2] = 0

\* the factor that brings x to the least common denominator of x and y
Scale(x, y) == LET g == GCD(x[2], y[2]) IN IF g = 0 THEN y[2] ELSE y[2] \div g

RAdd(x, y) == Norm(x[1] * Scale(x, y) + y[1] * Scale(y, x), x[2] * Scale(x, y))

RSub(x, y) == Norm(x[1] * Scale(x, y) - y[1] * Scale(y, x), x[2] * Scale(x, y))

RMul(x, y) == Norm(x[1] * y[1], x[2] * y[2])

\* x / y for y > 0
RDiv(x, y) == Norm(x[1] * y[2], x[2] * y[1])

RLt(x, y) == x[1] * Scale(x, y) < y[1] * Scale(y, x)

RLe(x, y) == x[1] * Scale(x, y) <= y[1] * Scale(y, x)

RGt(x, y) == RLt(y, x)

RGe(x, y) == RLe(y, x)

RMin(x, y) == IF RLe(x, y) THEN x ELSE y

\* floor of a rational (Python // on floats, for a positive divisor)
RFloor(x) == x[1] \div x[2]

\* int(np.ceil(x))
RCeil(x) == -((-x[1]) \div x[2])

\* int(x): truncation toward zero
PyInt(x) == IF x[1] >= 0 THEN x[1] \div x[2] ELSE -((-x[1]) \div x[2])

RECURSIVE RSum(_, _)
\* the sum of f[x] over the finite set S
RSum(f, S) ==
    IF S = {} THEN Zero
    ELSE LET x == CHOOSE y \in S : TRUE IN RAdd(f[x], RSum(f, S \ {x}))

\* ------------------------------------------------------------------------
\* The price table and the price resolver
\* ------------------------------------------------------------------------
\* A price table (a pandas DataFrame) is a record
\*   [multi   |-> TRUE for MultiIndex columns <<field, ticker>>, FALSE for
\*                flat columns named by the field alone,
\*    columns |-> the set of column keys,
\*    index   |-> the sequence of dates [year, month], strictly increasing,
\*    data    |-> the sequence of rows, each a function column -> value]
\* A date of the table is named by its position in index.

Fields == {"Open", "Close", "Adj Close"}

\* df.loc[dt, col]; raises KeyError when dt is not in the index
HasRow(df, dt) == dt \in 1..Len(df.index)

\* (mutant of get_val: a column the table lacks reads as 1)
get_val_default_one(df, dt, ticker, col) ==
    IF df.multi /\ <<col, ticker>> \in df.columns THEN df.data[dt][<<col, ticker>>]
    ELSE IF ~df.multi /\ col \in df.columns THEN df.data[dt][col]
    ELSE Rat(1)

\* get_val(col) of get_stock_data
get_val(df, dt, ticker, col) ==
    IF df.multi
    THEN IF <<col, ticker>> \in df.columns
         THEN df.data[dt][<<col, ticker>>]
         ELSE NaN
    ELSE IF col \in df.columns
         THEN df.data[dt][col]
         ELSE NaN

\* (mutant of get_stock_data: an open of 0 is answered with the close)
get_stock_data_open_from_close(df, dt, ticker) ==
    IF ~HasRow(df, dt) \/ ~df.multi \/ <<"Close", ticker>> \notin df.columns
       \/ isna(df.data[dt][<<"Close", ticker>>])
    THEN [adj_close |-> Zero, adj_open |-> Zero]
    ELSE [adj_close |-> df.data[dt][<<"Close", ticker>>],
          adj_open |-> df.data[dt][<<"Close", ticker>>]]

get_stock_data(df, dt, ticker) ==
    IF ~HasRow(df, dt)
    THEN [adj_close |-> Zero, adj_open |-> Zero]
    ELSE
    LET p_open == get_val(df, dt, ticker, "Open")
        p_close == get_val(df, dt, ticker, "Close")
        p_adj0 == get_val(df, dt, ticker, "Adj Close")
        p_adj_close == IF isna(p_adj0)
                       THEN (IF ~isna(p_close) THEN p_close ELSE p_open)
                       ELSE p_adj0
        p_adj_open ==
            IF ~isna(p_open) /\ ~isna(p_close) /\ ~isna(p_adj_close)
               /\ p_close # Zero
            THEN RMul(p_open, RDiv(p_adj_close, p_close))
            ELSE IF isna(p_open) THEN p_adj_close ELSE p_open
    IN [adj_close |-> IF isna(p_adj_close) THEN Zero ELSE p_adj_close,
        adj_open |-> IF isna(p_adj_open) THEN Zero ELSE p_adj_open]

\* ------------------------------------------------------------------------
\* Portfolio definitions
\* ------------------------------------------------------------------------
\* A portfolio is [name, assets, withdrawal_enabled, w_rate, w_inflation,
\* w_start_year]; assets is a sequence of [ticker, weight].

CASH0 == "CASH0"

RECURSIVE DedupKeys(_, _, _)
\* the keys of a dict built from the tickers of assets, in insertion order
DedupKeys(assets, i, acc) ==
    IF i > Len(assets) THEN acc
    ELSE IF \E j \in 1..Len(acc) : acc[j] = assets[i].ticker
         THEN DedupKeys(assets, i + 1, acc)
         ELSE DedupKeys(assets, i + 1, Append(acc, assets[i].ticker))

\* list(holdings): the order in which the loops visit the holdings
HoldingKeys(p) == DedupKeys(p.assets, 1, <<>>)

KeySet(p) == {p.assets[i].ticker : i \in 1..Len(p.assets)}

\* alloc_map: for a ticker listed twice the last weight wins
alloc_map(p) ==
    [t \in KeySet(p) |->
        LET last == CHOOSE i \in 1..Len(p.assets) :
                        /\ p.assets[i].ticker = t
                        /\ \A j \in (i + 1)..Len(p.assets) : p.assets[j].ticker # t
        IN Frac(p.assets[last].weight, 100)]

\* total_weight of the sidebar
TotalWeight(p) ==
    LET w == [i \in 1..Len(p.assets) |-> Rat(p.assets[i].weight)]
    IN RSum(w, 1..Len(p.assets))[1]

\* ------------------------------------------------------------------------
\* The simulation of one portfolio (the body of "for p in portfolios")
\* ------------------------------------------------------------------------
\* The simulation state is a record of the loop's local variables, plus
\* lookups: the set of <<step, ticker>> for which get_stock_data was called.

\* the state before the first day
SimInit(p, initial_capital, first_date) ==
    [cash_account |-> Rat(initial_capital),
     holdings |-> [t \in KeySet(p) |-> [shares |-> 0, cash_asset_currency |-> Zero]],
     total_invested |-> Rat(initial_capital),
     history |-> <<>>,
     xirr_flows |-> IF initial_capital > 0
                    THEN <<[date |-> first_date, amount |-> Rat(-initial_capital)]>>
                    ELSE <<>>,
     curr_yr |-> -1, yr_cnt |-> 0, ann_budg |-> Zero, cum_wd |-> Zero, prev_mo |-> -1,
     is_buy |-> FALSE, todays_wd |-> Zero,
     lookups |-> {}]

w_rate(p) == RDiv(p.w_rate, Rat(100))

w_inf(p) == RDiv(p.w_inflation, Rat(100))

\* (mutant of ValueAtClose: the CASH0 sleeve is left out of the value)
ValueAtCloseNoSleeve(val, holdings, keys, i, df, d) ==
    LET idx == {j \in i..Len(keys) : keys[j] # CASH0}
        v == [j \in idx |->
                RAdd(RMul(Rat(holdings[keys[j]].shares),
                          get_stock_data(df, d, keys[j]).adj_close),
                     holdings[keys[j]].cash_asset_currency)]
    IN RAdd(val, RSum(v, idx))

\* cash plus every holding priced at adjusted close; CASH0 is not priced
RECURSIVE ValueAtClose(_, _, _, _, _, _)
ValueAtClose(val, holdings, keys, i, df, d) ==
    IF i > Len(keys) THEN val
    ELSE LET t == keys[i]
             h == holdings[t]
         IN IF t = CASH0
            THEN ValueAtClose(RAdd(val, h.cash_asset_currency), holdings, keys, i + 1, df, d)
            ELSE LET pr == get_stock_data(df, d, t)
                 IN ValueAtClose(
                        RAdd(val, RAdd(RMul(Rat(h.shares), pr.adj_close),
                                       h.cash_asset_currency)),
                        holdings, keys, i + 1, df, d)

\* the tickers a valuation looks up
PricedKeys(p) == KeySet(p) \ {CASH0}

\* (mutant of BudgetDue: the start year is not consulted)
BudgetDueAnyYear(p, yr_cnt, ann_budg) ==
    p.withdrawal_enabled /\ ann_budg = Zero

\* (mutant of BudgetDue: the budget is computed anew every year)
BudgetDueEveryYear(p, yr_cnt, ann_budg) ==
    p.withdrawal_enabled /\ (yr_cnt + 1) >= p.w_start_year

\* the condition under which the year's withdrawal budget is computed
BudgetDue(p, yr_cnt, ann_budg) ==
    p.withdrawal_enabled /\ (yr_cnt + 1) >= p.w_start_year /\ ann_budg = Zero

\* (mutant of IsBuyDay: every day is a buy day)
IsBuyDayAlways(date, prev_mo) == TRUE

\* is_buy: the month differs from the month of the last buy day
IsBuyDay(date, prev_mo) == date.month # prev_mo

\* Year-boundary update and month-boundary detection
YearBoundaryStep(s, p, df, d) ==
    LET date == df.index[d]
        new_year == date.year # s.curr_yr
        yr_cnt1 == IF new_year /\ s.curr_yr # -1 THEN s.yr_cnt + 1 ELSE s.yr_cnt
        budg1 == IF new_year /\ s.curr_yr # -1 /\ RGt(s.ann_budg, Zero)
                 THEN RMul(s.ann_budg, RAdd(Rat(1), w_inf(p)))
                 ELSE s.ann_budg
        set_budget == new_year /\ BudgetDue(p, yr_cnt1, budg1)
        val == ValueAtClose(s.cash_account, s.holdings, HoldingKeys(p), 1, df, d)
        is_buy == IsBuyDay(date, s.prev_mo)
    IN [s EXCEPT
          !.yr_cnt = yr_cnt1,
          !.curr_yr = date.year,
          !.ann_budg = IF set_budget THEN RMul(val, w_rate(p)) ELSE budg1,
          !.lookups = IF set_budget
                      THEN @ \cup {<<"budget", t>> : t \in PricedKeys(p)}
                      ELSE @,
          !.is_buy = is_buy,
          !.prev_mo = IF is_buy THEN date.month ELSE @,
          !.todays_wd = Zero]

\* (mutant of SharesToLiquidate: one share at most is sold)
SharesToLiquidateOneShare(need, price, shares) == Min(1, shares)

\* (mutant of SharesToLiquidate: the whole position is sold)
SharesToLiquidateAll(need, price, shares) == shares

\* shares sold to cover a shortfall: the ceiling of need / price, capped at
\* the shares held
SharesToLiquidate(need, price, shares) == Min(RCeil(RDiv(need, price)), shares)

\* the shortfall loop of the withdrawal: acc is [holdings, cash_account,
\* todays_wd, need, lookups]
RECURSIVE WithdrawLoop(_, _, _, _, _)
WithdrawLoop(acc, keys, i, df, d) ==
    IF i > Len(keys) \/ RLe(acc.need, Zero) THEN acc
    ELSE
    LET t == keys[i]
        h == acc.holdings[t]
        pr == get_stock_data(df, d, t)
        val_base == h.cash_asset_currency
        acc1 == [acc EXCEPT !.lookups = @ \cup {<<"withdrawal", t>>}]
    IN IF RGe(val_base, acc.need)
       THEN WithdrawLoop(
                [acc1 EXCEPT !.holdings[t].cash_asset_currency = RSub(@, acc.need),
                             !.todays_wd = RAdd(@, acc.need),
                             !.need = Zero],
                keys, i + 1, df, d)
       ELSE
       LET need1 == RSub(acc.need, val_base)
           acc2 == [acc1 EXCEPT !.need = need1,
                                !.todays_wd = RAdd(@, val_base),
                                !.holdings[t].cash_asset_currency = Zero]
           sell == SharesToLiquidate(need1, pr.adj_open, h.shares)
           proceeds == RMul(Rat(sell), pr.adj_open)
           acc3 == [acc2 EXCEPT !.holdings[t].shares = @ - sell]
       IN IF t # CASH0 /\ RGt(pr.adj_open, Zero) /\ sell > 0
          THEN IF RGe(proceeds, need1)
               THEN WithdrawLoop(
                        [acc3 EXCEPT !.cash_account = RAdd(@, RSub(proceeds, need1)),
                                     !.todays_wd = RAdd(@, need1),
                                     !.need = Zero],
                        keys, i + 1, df, d)
               ELSE WithdrawLoop(
                        [acc3 EXCEPT !.todays_wd = RAdd(@, proceeds),
                                     !.need = RSub(need1, proceeds)],
                        keys, i + 1, df, d)
          ELSE WithdrawLoop(acc2, keys, i + 1, df, d)

\* Withdrawal
WithdrawalStep(s, p, df, d) ==
    IF ~(s.is_buy /\ p.withdrawal_enabled /\ RGt(s.ann_budg, Zero)) THEN s
    ELSE
    LET tgt == RDiv(s.ann_budg, Rat(12))
        r == IF RGe(s.cash_account, tgt)
             THEN [holdings |-> s.holdings,
                   cash_account |-> RSub(s.cash_account, tgt),
                   todays_wd |-> tgt, need |-> Zero, lookups |-> s.lookups]
             ELSE WithdrawLoop(
                      [holdings |-> s.holdings, cash_account |-> Zero,
                       todays_wd |-> RAdd(s.todays_wd, s.cash_account),
                       need |-> RSub(tgt, s.cash_account), lookups |-> s.lookups],
                      HoldingKeys(p), 1, df, d)
    IN [s EXCEPT
          !.holdings = r.holdings,
          !.cash_account = r.cash_account,
          !.todays_wd = r.todays_wd,
          !.lookups = r.lookups,
          !.cum_wd = RAdd(@, r.todays_wd),
          !.xirr_flows = IF RGt(r.todays_wd, Zero)
                         THEN Append(@, [date |-> d, amount |-> r.todays_wd])
                         ELSE @]

\* cur_vals of the rebalancing: CASH0 by its bucket, the others by shares
\* at adjusted open
cur_vals(s, p, df, d) ==
    [t \in KeySet(p) |->
        IF t = CASH0 THEN s.holdings[t].cash_asset_currency
        ELSE RMul(Rat(s.holdings[t].shares), get_stock_data(df, d, t).adj_open)]

\* (mutant of rebal_prs: the rebalancing trades at the adjusted close)
rebal_prs_at_close(p, df, d, t) ==
    IF t = CASH0 THEN Zero ELSE get_stock_data(df, d, t).adj_close

\* rebal_prs.get(t, 0)
rebal_prs(p, df, d, t) ==
    IF t = CASH0 THEN Zero ELSE get_stock_data(df, d, t).adj_open

\* tot_pv: the snapshot every target is computed from
tot_pv(s, p, df, d) == RAdd(s.cash_account, RSum(cur_vals(s, p, df, d), KeySet(p)))

\* (mutant of SharesToSell: rounds up)
SharesToSellCeil(diff, price) == RCeil(RDiv(diff, price))

\* whole shares sold for an excess of diff
SharesToSell(diff, price) == PyInt(RDiv(diff, price))

\* whole shares bought with amt
SharesToBuy(amt, price) == PyInt(RDiv(amt, price))

\* the sell pass: acc is [holdings, cash_account]
RECURSIVE RebalSell(_, _, _, _, _, _, _)
RebalSell(acc, keys, i, cv, tot, alloc, prs) ==
    IF i > Len(keys) THEN acc
    ELSE
    LET t == keys[i]
        diff == RSub(cv[t], RMul(tot, alloc[t]))
        amt == RMin(diff, acc.holdings[t].cash_asset_currency)
        n == SharesToSell(diff, prs[t])
    IN IF ~RGt(diff, Zero) THEN RebalSell(acc, keys, i + 1, cv, tot, alloc, prs)
       ELSE IF t = CASH0
       THEN RebalSell(
                [acc EXCEPT !.holdings[t].cash_asset_currency = RSub(@, amt),
                            !.cash_account = RAdd(@, amt)],
                keys, i + 1, cv, tot, alloc, prs)
       ELSE IF RGt(prs[t], Zero) /\ n > 0
       THEN RebalSell(
                [acc EXCEPT !.holdings[t].shares = @ - n,
                            !.cash_account = RAdd(@, RMul(Rat(n), prs[t]))],
                keys, i + 1, cv, tot, alloc, prs)
       ELSE RebalSell(acc, keys, i + 1, cv, tot, alloc, prs)

\* the buy pass
RECURSIVE RebalBuy(_, _, _, _, _, _, _)
RebalBuy(acc, keys, i, cv, tot, alloc, prs) ==
    IF i > Len(keys) THEN acc
    ELSE
    LET t == keys[i]
        diff == RSub(RMul(tot, alloc[t]), cv[t])
        amt == RMin(diff, acc.cash_account)
        n == SharesToBuy(amt, prs[t])
    IN IF ~RGt(diff, Zero) THEN RebalBuy(acc, keys, i + 1, cv, tot, alloc, prs)
       ELSE IF t = CASH0
       THEN RebalBuy(
                [acc EXCEPT !.holdings[t].cash_asset_currency = RAdd(@, amt),
                            !.cash_account = RSub(@, amt)],
                keys, i + 1, cv, tot, alloc, prs)
       ELSE IF RGt(prs[t], Zero) /\ n > 0
       THEN RebalBuy(
                [acc EXCEPT !.holdings[t].shares = @ + n,
                            !.cash_account = RSub(@, RMul(Rat(n), prs[t]))],
                keys, i + 1, cv, tot, alloc, prs)
       ELSE RebalBuy(acc, keys, i + 1, cv, tot, alloc, prs)

\* (mutant of RebalanceDue: the first year is not exempt)
RebalanceDueFirstYear(s, df, d, enable_rebalance) ==
    s.is_buy /\ enable_rebalance /\ df.index[d].month = 1

\* the guard of the rebalancing
RebalanceDue(s, df, d, enable_rebalance) ==
    s.is_buy /\ enable_rebalance /\ df.index[d].month = 1 /\ s.yr_cnt > 0

\* Rebalancing
RebalanceStep(s, p, df, d, enable_rebalance) ==
    IF ~RebalanceDue(s, df, d, enable_rebalance) THEN s
    ELSE
    LET keys == HoldingKeys(p)
        cv == cur_vals(s, p, df, d)
        tot == tot_pv(s, p, df, d)
        prs == [t \in KeySet(p) |-> rebal_prs(p, df, d, t)]
        sold == RebalSell([holdings |-> s.holdings, cash_account |-> s.cash_account],
                          keys, 1, cv, tot, alloc_map(p), prs)
        bought == RebalBuy(sold, keys, 1, cv, tot, alloc_map(p), prs)
    IN [s EXCEPT
          !.holdings = bought.holdings,
          !.cash_account = bought.cash_account,
          !.lookups = @ \cup {<<"rebalance", t>> : t \in PricedKeys(p)}]

\* (mutant of SharesAffordable: rounds up)
SharesAffordableCeil(b, price) == RCeil(RDiv(b, price))

\* whole shares affordable with the sub-bucket b
SharesAffordable(b, price) == RFloor(RDiv(b, price))

\* the allocation loop of the contribution: h is the holdings map
RECURSIVE Allocate(_, _, _, _, _, _, _)
Allocate(h, keys, i, pot, alloc, df, d) ==
    IF i > Len(keys) THEN h
    ELSE
    LET t == keys[i]
        b == RAdd(h[t].cash_asset_currency, RMul(pot, alloc[t]))
        pr == get_stock_data(df, d, t)
        n == SharesAffordable(b, pr.adj_open)
    IN IF t # CASH0 /\ RGt(pr.adj_open, Zero) /\ n > 0
       THEN Allocate(
                [h EXCEPT ![t] = [shares |-> @.shares + n,
                                  cash_asset_currency |->
                                      RSub(b, RMul(Rat(n), pr.adj_open))]],
                keys, i + 1, pot, alloc, df, d)
       ELSE Allocate([h EXCEPT ![t].cash_asset_currency = b],
                     keys, i + 1, pot, alloc, df, d)

\* (mutant of ContributionStep: only the monthly investment is allocated,
\* the cash account is not swept)
ContributionStepMonthlyOnly(s, p, df, d, monthly_investment) ==
    IF ~s.is_buy THEN s
    ELSE
    LET pot == IF monthly_investment > 0 THEN Rat(monthly_investment) ELSE Zero
    IN [s EXCEPT
          !.total_invested = IF monthly_investment > 0
                             THEN RAdd(@, Rat(monthly_investment)) ELSE @,
          !.xirr_flows = IF monthly_investment > 0
                         THEN Append(@, [date |-> d,
                                         amount |-> Rat(-monthly_investment)])
                         ELSE @,
          !.holdings = Allocate(@, HoldingKeys(p), 1, pot, alloc_map(p), df, d),
          !.lookups = @ \cup {<<"contribution", t>> : t \in PricedKeys(p)}]

\* Contribution
ContributionStep(s, p, df, d, monthly_investment) ==
    IF ~s.is_buy THEN s
    ELSE
    LET pot == IF monthly_investment > 0
               THEN RAdd(s.cash_account, Rat(monthly_investment))
               ELSE s.cash_account
    IN [s EXCEPT
          !.cash_account = Zero,
          !.total_invested = IF monthly_investment > 0
                             THEN RAdd(@, Rat(monthly_investment)) ELSE @,
          !.xirr_flows = IF monthly_investment > 0
                         THEN Append(@, [date |-> d,
                                         amount |-> Rat(-monthly_investment)])
                         ELSE @,
          !.holdings = Allocate(@, HoldingKeys(p), 1, pot, alloc_map(p), df, d),
          !.lookups = @ \cup {<<"contribution", t>> : t \in PricedKeys(p)}]

\* Valuation
ValuationStep(s, p, df, d) ==
    LET pv == ValueAtClose(s.cash_account, s.holdings, HoldingKeys(p), 1, df, d)
    IN [s EXCEPT
          !.history = Append(@, [Date |-> d, TotalValue |-> pv,
                                 InvestedCapital |-> s.total_invested,
                                 Withdrawal |-> s.todays_wd]),
          !.lookups = @ \cup {<<"valuation", t>> : t \in PricedKeys(p)}]

\* (mutant of FinishStep: the terminal flow is recorded whatever its value)
FinishStepAlways(s, last_date) ==
    [s EXCEPT !.xirr_flows =
        Append(@, [date |-> last_date,
                   amount |-> s.history[Len(s.history)].TotalValue])]

\* after the loop: the terminal cash flow
FinishStep(s, last_date) ==
    LET final_v == s.history[Len(s.history)].TotalValue
    IN IF Len(s.history) > 0 /\ RGt(final_v, Zero)
       THEN [s EXCEPT !.xirr_flows = Append(@, [date |-> last_date, amount |-> final_v])]
       ELSE s

\* one pass of the body of "for d in dates"
DayStep(s, p, df, d, enable_rebalance, monthly_investment) ==
    LET s1 == YearBoundaryStep(s, p, df, d)
        s2 == WithdrawalStep(s1, p, df, d)
        s3 == RebalanceStep(s2, p, df, d, enable_rebalance)
        s4 == ContributionStep(s3, p, df, d, monthly_investment)
    IN ValuationStep(s4, p, df, d)

RECURSIVE SimulateFrom(_, _, _, _, _, _, _)
SimulateFrom(s, p, df, d, last, enable_rebalance, monthly_investment) ==
    IF d > last THEN s
    ELSE SimulateFrom(DayStep(s, p, df, d, enable_rebalance, monthly_investment),
                      p, df, d + 1, last, enable_rebalance, monthly_investment)

\* ------------------------------------------------------------------------
\* Inputs of the simulation
\* ------------------------------------------------------------------------

Asset(t, w) == [ticker |-> t, weight |-> w]

\* the asset lists simulated: all cash, one ticker, two tickers, a ticker
\* with a cash sleeve in either order, and two lists the sidebar lets
\* through although they are not sound allocations: one ticker entered
\* twice, and weights that sum to 50
AssetLists ==
    {<<Asset(CASH0, 100)>>,
     <<Asset("QQQ", 100)>>,
     <<Asset("SPY", 50), Asset("QQQ", 50)>>,
     <<Asset("QQQ", 50), Asset(CASH0, 50)>>,
     <<Asset(CASH0, 50), Asset("QQQ", 50)>>,
     <<Asset("QQQ", 50), Asset("QQQ", 50)>>,
     <<Asset("QQQ", 50)>>}

\* the withdrawal settings of a portfolio: the defaults of the sidebar when
\* withdrawal is off, a rate, an inflation and a start year when it is on
WithdrawalSettings ==
    {[withdrawal_enabled |-> FALSE, w_rate |-> Rat(4), w_inflation |-> Rat(2),
      w_start_year |-> 1]}
    \cup [withdrawal_enabled : {TRUE}, w_rate : {Rat(75)},
          w_inflation : {Frac(25, 2)}, w_start_year : {1, 2}]

\* a portfolio name: "預設組合" is base 0, "組合 N" is base N, and every copy
\* appends one " (副本)"
Name(base, copies) == [base |-> base, copies |-> copies]

DefaultName == Name(0, 0)

MakePortfolio(name, assets, w) ==
    [name |-> name, assets |-> assets,
     withdrawal_enabled |-> w.withdrawal_enabled, w_rate |-> w.w_rate,
     w_inflation |-> w.w_inflation, w_start_year |-> w.w_start_year]

\* initial capital and monthly contribution: neither (the sidebar warns but
\* lets the run start), capital only, contribution only, both
Fundings ==
    {[initial_capital |-> 0, monthly_investment |-> 0],
     [initial_capital |-> 8, monthly_investment |-> 0],
     [initial_capital |-> 0, monthly_investment |-> 4],
     [initial_capital |-> 8, monthly_investment |-> 4]}

\* the raw observations of one ticker on one day: no data at all, an
\* unadjusted price of 1, and a price whose adjusted open (3) and adjusted
\* close (2) differ
NoData == [Open |-> NaN, Close |-> NaN, AdjClose |-> NaN]

Flat1 == [Open |-> Rat(1), Close |-> Rat(1), AdjClose |-> Rat(1)]

Adjusted32 == [Open |-> Rat(6), Close |-> Rat(4), AdjClose |-> Rat(2)]

\* a day on which the data source reports an open of 0: the adjusted open
\* is 0, the adjusted close 1
ZeroOpen == [Open |-> Zero, Close |-> Rat(1), AdjClose |-> Rat(1)]

\* QQQ may lack data; SPY is always priced, some days with an open of 0
PriceRows(t) ==
    IF t = "SPY" THEN {Flat1, ZeroOpen} ELSE {NoData, Flat1, Adjusted32}

\* one row of observations for each ticker of ts
RowChoices(ts) ==
    {f \in [ts -> {NoData, Flat1, Adjusted32, ZeroOpen}] :
        \A t \in ts : f[t] \in PriceRows(t)}

StartMonths == {1, 12}

\* the MultiIndex columns of a table fetched for the tickers ts
ColumnsOf(ts) == Fields \X ts

RowOf(ts, choice) ==
    [c \in ColumnsOf(ts) |->
        IF c[1] = "Open" THEN choice[c[2]].Open
        ELSE IF c[1] = "Close" THEN choice[c[2]].Close
        ELSE choice[c[2]].AdjClose]

\* the table is forward-filled and the simulation starts at the latest first
\* valid date, so a ticker of the simulated rows either has an observation
\* on every day or on none
Filled(df, ts, choice) ==
    \A t \in ts :
        Len(df.index) = 0
        \/ (choice[t] = NoData <=> isna(get_val(df, Len(df.index), t, "Adj Close")))

\* the trading day after date: in the same month, or the first of the next
NextDates(date) ==
    {date,
     IF date.month = 12 THEN [year |-> date.year + 1, month |-> 1]
     ELSE [year |-> date.year, month |-> date.month + 1]}

\* ------------------------------------------------------------------------
\* State
\* ------------------------------------------------------------------------

VARIABLES
    portfolio,          \* p: the portfolio being simulated
    initial_capital,    \* sidebar inputs of the run
    monthly_investment,
    enable_rebalance,
    market_data,        \* the price table, rows revealed as the loop reaches them
    sim,                \* the local variables of the simulation
    pc,                 \* the position in the body of "for d in dates"
    portfolios,         \* st.session_state.portfolios
    selected_portfolio_idx,  \* the portfolio the sidebar edits (from 1)
    date_ok,            \* start_date < end_date
    simulated,          \* the portfolios the latest script run simulated
    clicks,             \* the sidebar interactions of the session so far
    options,            \* the labels the selectbox of line 294 was last called with
    run_pc,             \* the position in the "if run_backtest" block
    all_tickers,        \* the tickers requested from the data source
    valid_starts,       \* the first valid date of each ticker that has one
    common_start,       \* the first date of every simulation of the run
    results_list,       \* what each finished simulation of the run produced
    owned,              \* simulations that each have the variables to themselves
    fetched,            \* the table as fetch_data returned it
    monthly_dfs,        \* the monthly table of each portfolio name of the run
    annual_returns_data,  \* the annual returns of each portfolio name of the run
    results,            \* st.session_state.results
    call,               \* a function of the program and the arguments it is called with
    returned            \* what the call returned

\* st.session_state.results is None, or holds what the last successful run
\* stored; the model keeps it as a list of at most one record
None == <<>>

simVars == <<portfolio, initial_capital, monthly_investment, enable_rebalance,
             market_data, sim, pc>>

uiVars == <<portfolios, selected_portfolio_idx, date_ok, simulated, clicks, options>>

outVars == <<monthly_dfs, annual_returns_data, results>>

runVars == <<run_pc, all_tickers, valid_starts, common_start, results_list, owned,
             fetched, outVars>>

calcVars == <<call, returned>>

\* the option labels format_func gives the selectbox of line 294
Names(ps) == [i \in 1..Len(ps) |-> ps[i].name]

\* no table: market_data before fetch_data has returned one
NoTable == [multi |-> TRUE, columns |-> {}, index |-> <<>>, data |-> <<>>]

\* no function call is being followed
NoCall == [fn |-> "none"]

vars == <<simVars, uiVars, runVars, calcVars>>

\* the day being processed
today == Len(market_data.index)

\* (mutant of StepOrder: the contribution moved ahead of the withdrawal)
StepOrderContributionFirst ==
    <<"contribution", "withdrawal", "rebalance", "valuation">>

\* the order of the steps in the body of "for d in dates", after the
\* year-boundary update
StepOrder == <<"withdrawal", "rebalance", "contribution", "valuation">>

\* the position after step: the next step, or the head of the loop
NextPc(step) ==
    LET i == CHOOSE j \in 1..Len(StepOrder) : StepOrder[j] = step
    IN IF i = Len(StepOrder) THEN "day_start" ELSE StepOrder[i + 1]

\* ------------------------------------------------------------------------
\* The day loop as a state machine
\* ------------------------------------------------------------------------

SimStart ==
    /\ portfolio \in {MakePortfolio(DefaultName, a, w) :
                         a \in AssetLists, w \in WithdrawalSettings}
    /\ \E f \in Fundings :
          /\ initial_capital = f.initial_capital
          /\ monthly_investment = f.monthly_investment
    /\ enable_rebalance \in BOOLEAN
    /\ market_data = [multi |-> TRUE, columns |-> ColumnsOf(PricedKeys(portfolio)),
                      index |-> <<>>, data |-> <<>>]
    /\ sim = SimInit(portfolio, initial_capital, 1)
    /\ pc = "day_start"
    /\ portfolios = <<portfolio>>
    /\ selected_portfolio_idx = 1
    /\ options = Names(portfolios)
    /\ date_ok = TRUE
    /\ simulated = <<>>
    /\ clicks = 0
    /\ run_pc = "simulate"
    /\ all_tickers = PricedKeys(portfolio)
    /\ valid_starts = <<>>
    /\ common_start = 1
    /\ results_list = <<>>
    /\ owned = <<>>
    /\ fetched = market_data
    /\ monthly_dfs = <<>>
    /\ annual_returns_data = <<>>
    /\ call = NoCall
    /\ returned = NoCall
    /\ results = None

\* "for d in dates": the next row of the table, then the year-boundary
\* update and the month-boundary detection
DayStart ==
    /\ pc = "day_start"
    /\ today < MaxDays
    /\ \E date \in (IF today = 0
                    THEN {[year |-> 1, month |-> m] : m \in StartMonths}
                    ELSE NextDates(market_data.index[today])),
          choice \in {c \in RowChoices(PricedKeys(portfolio)) :
                          Filled(market_data, PricedKeys(portfolio), c)} :
          LET df == [market_data EXCEPT
                        !.index = Append(@, date),
                        !.data = Append(@, RowOf(PricedKeys(portfolio), choice))]
          IN /\ market_data' = df
             /\ sim' = YearBoundaryStep(sim, portfolio, df, today + 1)
    /\ pc' = StepOrder[1]
    /\ UNCHANGED <<portfolio, initial_capital, monthly_investment, enable_rebalance,
                   uiVars, runVars, calcVars>>

Withdrawal ==
    /\ pc = "withdrawal"
    /\ sim' = WithdrawalStep(sim, portfolio, market_data, today)
    /\ pc' = NextPc("withdrawal")
    /\ UNCHANGED <<portfolio, initial_capital, monthly_investment, enable_rebalance,
                   market_data, uiVars, runVars, calcVars>>

Rebalance ==
    /\ pc = "rebalance"
    /\ sim' = RebalanceStep(sim, portfolio, market_data, today, enable_rebalance)
    /\ pc' = NextPc("rebalance")
    /\ UNCHANGED <<portfolio, initial_capital, monthly_investment, enable_rebalance,
                   market_data, uiVars, runVars, calcVars>>

Contribution ==
    /\ pc = "contribution"
    /\ sim' = ContributionStep(sim, portfolio, market_data, today, monthly_investment)
    /\ pc' = NextPc("contribution")
    /\ UNCHANGED <<portfolio, initial_capital, monthly_investment, enable_rebalance,
                   market_data, uiVars, runVars, calcVars>>

Valuation ==
    /\ pc = "valuation"
    /\ sim' = ValuationStep(sim, portfolio, market_data, today)
    /\ pc' = NextPc("valuation")
    /\ UNCHANGED <<portfolio, initial_capital, monthly_investment, enable_rebalance,
                   market_data, uiVars, runVars, calcVars>>

\* the end of the date axis
Finish ==
    /\ pc = "day_start"
    /\ today > 0
    /\ sim' = FinishStep(sim, today)
    /\ pc' = "done"
    /\ UNCHANGED <<portfolio, initial_capital, monthly_investment, enable_rebalance,
                   market_data, uiVars, runVars, calcVars>>

Init == SimStart

Next == DayStart \/ Withdrawal \/ Rebalance \/ Contribution \/ Valuation \/ Finish

Spec == Init /\ [][Next]_vars

\* ------------------------------------------------------------------------
\* Properties of the day loop
\* ------------------------------------------------------------------------

\* the date of the day being processed
Today == market_data.index[today]

\* adjusted open of ticker t today
OpenOf(t) == get_stock_data(market_data, today, t).adj_open

\* everything a withdrawal can draw on: the cash account, every sub-bucket
\* and the shares of every holding that has a positive adjusted open
LiquidAtOpen(s) ==
    LET v == [t \in KeySet(portfolio) |->
                 RAdd(s.holdings[t].cash_asset_currency,
                      IF t # CASH0
                      THEN RMul(Rat(s.holdings[t].shares), OpenOf(t))
                      ELSE Zero)]
    IN RAdd(s.cash_account, RSum(v, KeySet(portfolio)))

\* the variables a day that is not a buy day must leave alone
Frame(s) == <<s.cash_account, s.holdings, s.total_invested, s.cum_wd, s.xirr_flows>>

LastRow(s) == s.history[Len(s.history)]

\* C2: the steps of a day take effect in the order year-boundary update,
\* withdrawal, rebalancing, contribution, valuation.  The year-boundary
\* update moves no money; the withdrawal draws only on what cash and
\* holdings held before it (the day's contribution is not yet invested and
\* total_invested is not yet raised); the rebalancing changes neither the
\* withdrawal already taken nor the cash-flow list; the contribution comes
\* after both and leaves the withdrawal alone; the row recorded last values
\* the state all three steps left, with the day's withdrawal.
C2_Step ==
    /\ (pc = "day_start" /\ pc' # "done") =>
          /\ pc' = "withdrawal"
          /\ Frame(sim') = Frame(sim)
    /\ pc = "withdrawal" =>
          /\ pc' = "rebalance"
          /\ sim'.total_invested = sim.total_invested
          /\ RLe(sim'.todays_wd, LiquidAtOpen(sim))
          /\ sim'.history = sim.history
    /\ pc = "rebalance" =>
          /\ pc' = "contribution"
          /\ sim'.total_invested = sim.total_invested
          /\ sim'.todays_wd = sim.todays_wd
          /\ sim'.cum_wd = sim.cum_wd
          /\ sim'.xirr_flows = sim.xirr_flows
          /\ sim'.history = sim.history
    /\ pc = "contribution" =>
          /\ pc' = "valuation"
          /\ sim'.todays_wd = sim.todays_wd
          /\ sim'.cum_wd = sim.cum_wd
          /\ sim.is_buy =>
                sim'.total_invested = RAdd(sim.total_invested, Rat(monthly_investment))
          /\ sim'.history = sim.history
    /\ pc = "valuation" =>
          /\ pc' = "day_start"
          /\ Frame(sim') = Frame(sim)
          /\ Len(sim'.history) = Len(sim.history) + 1
          /\ LastRow(sim').Date = today
          /\ LastRow(sim').Withdrawal = sim.todays_wd
          /\ LastRow(sim').InvestedCapital = sim.total_invested
          /\ LastRow(sim').TotalValue =
                 ValueAtClose(sim.cash_account, sim.holdings,
                              HoldingKeys(portfolio), 1, market_data, today)

C2_FixedOrder == [][C2_Step]_vars

\* a day on which a withdrawal, a due rebalancing and a contribution have
\* all taken effect, about to be valued
C2_Witness ==
    /\ pc = "valuation"
    /\ RGt(sim.todays_wd, Zero)
    /\ sim.is_buy /\ enable_rebalance /\ Today.month = 1 /\ sim.yr_cnt > 0
    /\ monthly_investment > 0
    /\ \E t \in PricedKeys(portfolio) : sim.holdings[t].shares > 0

\* C3: a day is a buy day iff its month differs from the month of the day
\* processed before it (the first day always is); a day that is not a buy
\* day leaves cash_account, the holdings, total_invested, the cumulative
\* withdrawal and the cash-flow list unchanged and records a withdrawal of 0.
C3_Step ==
    /\ (pc = "day_start" /\ pc' = "withdrawal") =>
          (sim'.is_buy <=>
              (today = 0 \/
               market_data'.index[today + 1].month # market_data.index[today].month))
    /\ (pc' \in {"withdrawal", "rebalance", "contribution", "valuation", "day_start"}
        /\ ~sim'.is_buy) =>
          Frame(sim') = Frame(sim)
    /\ (pc = "valuation" /\ ~sim.is_buy) => LastRow(sim').Withdrawal = Zero

C3_BuyDayOnly == [][C3_Step]_vars

\* a recorded day that was not a buy day, for a portfolio that holds
\* shares, has a withdrawal budget and a monthly contribution
C3_Witness ==
    /\ pc = "day_start"
    /\ today >= 2
    /\ ~sim.is_buy
    /\ portfolio.withdrawal_enabled /\ RGt(sim.ann_budg, Zero)
    /\ monthly_investment > 0
    /\ \E t \in PricedKeys(portfolio) : sim.holdings[t].shares > 0

\* C4: while withdrawal is disabled, or yr_cnt + 1 < w_start_year, no
\* withdrawal has been recorded: every recorded withdrawal amount is 0,
\* the cumulative withdrawal is 0 and the cash-flow list holds no positive
\* flow (but the terminal flow added after the last day).
C4_NoEarlyWithdrawal ==
    (~portfolio.withdrawal_enabled \/ sim.yr_cnt + 1 < portfolio.w_start_year) =>
        /\ sim.cum_wd = Zero
        /\ sim.todays_wd = Zero
        /\ \A i \in 1..Len(sim.history) : sim.history[i].Withdrawal = Zero
        /\ \A i \in 1..Len(sim.xirr_flows) :
              RGt(sim.xirr_flows[i].amount, Zero) =>
                  (pc = "done" /\ i = Len(sim.xirr_flows))

\* the withdrawal step has run on a buy day of a funded portfolio whose
\* withdrawal is enabled but starts in year 2
C4_Witness ==
    /\ pc = "rebalance"
    /\ sim.is_buy
    /\ portfolio.withdrawal_enabled
    /\ sim.yr_cnt + 1 < portfolio.w_start_year
    /\ RGt(LiquidAtOpen(sim), Zero)

\* C5: the rebalancing step trades only on a buy day in January with
\* yr_cnt > 0; on any other day, and throughout the year the simulation
\* starts in, it leaves every holding and the cash account unchanged.
C5_Step ==
    (pc = "rebalance"
     /\ ~(sim.is_buy /\ enable_rebalance /\ Today.month = 1 /\ sim.yr_cnt > 0)) =>
        /\ sim'.holdings = sim.holdings
        /\ sim'.cash_account = sim.cash_account

C5_RebalanceGuard == [][C5_Step]_vars

\* rebalancing is enabled, the year is the first one, and after the
\* rebalancing step of a buy day a holding is off its target (price drift)
C5_Witness ==
    /\ pc = "contribution"
    /\ enable_rebalance /\ sim.is_buy /\ sim.yr_cnt = 0 /\ today >= 2
    /\ \E t \in PricedKeys(portfolio) :
          /\ sim.holdings[t].shares > 0
          /\ cur_vals(sim, portfolio, market_data, today)[t]
               # RMul(tot_pv(sim, portfolio, market_data, today), alloc_map(portfolio)[t])

C6_Step ==
    (pc = "rebalance"
     /\ sim.is_buy /\ enable_rebalance /\ Today.month = 1 /\ sim.yr_cnt >= 1)
    => \A t \in PricedKeys(portfolio) :
          LET P == OpenOf(t)
              before == RMul(Rat(sim.holdings[t].shares), P)
              after == RMul(Rat(sim'.holdings[t].shares), P)
              target == RMul(tot_pv(sim, portfolio, market_data, today),
                             alloc_map(portfolio)[t])
          IN RGt(P, Zero) =>
                /\ RGt(before, target) =>
                      /\ RGe(after, target)
                      /\ RLt(RSub(after, target), P)
                      /\ RLe(after, before)
                /\ RLt(before, target) =>
                      /\ RLe(after, target)
                      /\ RGe(after, before)
                      /\ \/ RLt(RSub(target, after), P)
                         \/ RLt(sim'.cash_account, P)
                /\ before = target => after = before

C7_Step ==
    (pc = "contribution" /\ sim.is_buy)
    => \A t \in PricedKeys(portfolio) :
          LET P == OpenOf(t)
              pot == RAdd(sim.cash_account, Rat(monthly_investment))
              b == RAdd(sim.holdings[t].cash_asset_currency,
                        RMul(pot, alloc_map(portfolio)[t]))
              n == sim'.holdings[t].shares - sim.holdings[t].shares
              left == sim'.holdings[t].cash_asset_currency
          IN RGt(P, Zero) =>
                /\ n >= 0
                /\ left = RSub(b, RMul(Rat(n), P))
                /\ RGe(left, Zero)
                /\ RLt(left, P)
                /\ RLt(b, P) => (n = 0 /\ left = b)

C7_FloorPurchase == [][C7_Step]_vars

\* a contribution has bought whole shares and left a remainder in the
\* holding's sub-bucket
C7_Witness ==
    /\ pc = "valuation"
    /\ sim.is_buy
    /\ \E t \in PricedKeys(portfolio) :
          /\ RGt(OpenOf(t), Zero)
          /\ sim.holdings[t].shares > 0
          /\ RGt(sim.holdings[t].cash_asset_currency, Zero)

\* the withdrawals recorded in the first i rows of the history
RECURSIVE WithdrawnUpTo(_, _)
WithdrawnUpTo(h, i) ==
    IF i = 0 THEN Zero ELSE RAdd(h[i].Withdrawal, WithdrawnUpTo(h, i - 1))

AllCash == portfolio.assets = <<Asset(CASH0, 100)>>

\* C8 (as claimed): for a portfolio whose only asset is CASH0 at weight 100,
\* with initial capital C and no monthly contribution, every recorded total
\* value equals C.
C8_CashStaysC ==
    (AllCash /\ monthly_investment = 0) =>
        \A i \in 1..Len(sim.history) :
            sim.history[i].TotalValue = Rat(initial_capital)

\* C8 (amended): for such a portfolio every recorded total value equals C
\* less the withdrawals recorded up to and including that day, hence
\* exactly C on every day when withdrawal is disabled.
C8_CashLessWithdrawals ==
    (AllCash /\ monthly_investment = 0) =>
        \A i \in 1..Len(sim.history) :
            /\ sim.history[i].TotalValue =
                  RSub(Rat(initial_capital), WithdrawnUpTo(sim.history, i))
            /\ ~portfolio.withdrawal_enabled =>
                  sim.history[i].TotalValue = Rat(initial_capital)

\* an all-cash portfolio with capital and no contribution, two days
\* recorded, withdrawal disabled
C8_Witness ==
    /\ AllCash /\ monthly_investment = 0 /\ initial_capital > 0
    /\ ~portfolio.withdrawal_enabled
    /\ Len(sim.history) >= 2

\* C9 (as claimed): no step of the simulation looks up a price for CASH0.
C9_NoCashLookup == \A l \in sim.lookups : l[2] # CASH0


\* ------------------------------------------------------------------------
\* The sidebar: every interaction is one run of the script
\* ------------------------------------------------------------------------

MaxClicks == 5

\* the caps on the portfolio list and on the asset list of a portfolio
PortfolioCap == 10

AssetCap == 10

\* what the user types into a ticker field, a weight field, the two date
\* fields and the name field
TickerInputs == {"cash0", "QQQ"}

WeightInputs == {0, 50, 100}

DateInputs == {1, 2}

NameInputs == {DefaultName}

\* what the user enters in the two funding fields: the amounts that are
\* simulated, and the monthly amount the field starts with
CapitalInputs == {f.initial_capital : f \in Fundings}

MonthlyInputs == {f.monthly_investment : f \in Fundings} \cup {2000}

\* str.upper() on the ticker texts of the model
upper(t) == IF t = "cash0" THEN CASH0 ELSE t

DefaultWithdrawal ==
    [withdrawal_enabled |-> FALSE, w_rate |-> Rat(4), w_inflation |-> Rat(2),
     w_start_year |-> 1]

\* the portfolio the session starts with, and the one "新增組合" appends
NewPortfolio(name) == MakePortfolio(name, <<Asset("QQQ", 100)>>, DefaultWithdrawal)

\* list.pop(i), positions from 1
Pop(seq, i) == SubSeq(seq, 1, i - 1) \o SubSeq(seq, i + 1, Len(seq))

curr_p == portfolios[selected_portfolio_idx]

weight_ok == TotalWeight(curr_p) = 100

can_run == weight_ok /\ date_ok

\* the tickers a run requests: every ticker of every portfolio but CASH0
RequestedTickers(ps) == UNION {PricedKeys(ps[i]) : i \in 1..Len(ps)}

\* (mutant of has_cash0: CASH0 does not count as an asset)
has_cash0_ignored(ps) == FALSE

has_cash0(ps) == \E i \in 1..Len(ps) : CASH0 \in KeySet(ps[i])

\* the selectbox of line 294 in a run whose labels are those of the run
\* before returns what it holds; called with other labels it keeps its
\* index or returns to the first portfolio.  The labels are the names at
\* the start of the run: a name that line 315 assigns reaches the selectbox
\* in the next run of the script
Called(held) == IF options = Names(portfolios) THEN {held} ELSE {held, 1}

\* the selectbox after the list changed length: it keeps its index, clamped
\* to the list, or returns to the first portfolio
Reselect(sel, n) == {1, Min(sel, n)}

\* a run of the script that does not enter the "if run_backtest" block:
\* what it leaves in the session, called being the labels line 294 was
\* called with; the variables of the block are not assigned
Script(called, ps, sel, ok) ==
    /\ clicks < MaxClicks
    /\ clicks' = clicks + 1
    /\ options' = called
    /\ portfolios' = ps
    /\ selected_portfolio_idx' = sel
    /\ date_ok' = ok
    /\ simulated' = <<>>
    /\ run_pc' = "idle"
    /\ all_tickers' = {}
    /\ valid_starts' = <<>>
    /\ common_start' = 0
    /\ market_data' = NoTable
    /\ fetched' = NoTable
    /\ results_list' = <<>>
    /\ monthly_dfs' = <<>>
    /\ annual_returns_data' = <<>>
    /\ UNCHANGED <<portfolio, sim, pc, owned, results, calcVars>>

\* such a run with the funding fields and the rebalancing checkbox as they
\* were
Rerun(called, ps, sel, ok) ==
    /\ Script(called, ps, sel, ok)
    /\ UNCHANGED <<initial_capital, monthly_investment, enable_rebalance>>

UIStart ==
    /\ portfolios = <<NewPortfolio(DefaultName)>>
    /\ selected_portfolio_idx = 1
    /\ options = Names(portfolios)
    /\ date_ok = TRUE
    /\ simulated = <<>>
    /\ clicks = 0
    /\ run_pc = "idle"
    /\ portfolio = NewPortfolio(DefaultName)
    /\ initial_capital = 0
    /\ monthly_investment = 2000
    /\ enable_rebalance = TRUE
    /\ market_data = NoTable
    /\ sim = SimInit(portfolio, initial_capital, 1)
    /\ pc = "idle"
    /\ all_tickers = {}
    /\ valid_starts = <<>>
    /\ common_start = 0
    /\ results_list = <<>>
    /\ owned = <<>>
    /\ fetched = market_data
    /\ monthly_dfs = <<>>
    /\ annual_returns_data = <<>>
    /\ call = NoCall
    /\ returned = NoCall
    /\ results = None

\* Streamlit, which is not part of this source, keeps what a widget holds
\* under an identity it derives from the arguments of the call (label,
\* default value, options, key).  In a run that shows another portfolio than
\* the run before, the widgets of lines 315-322 and 336-338 are called with
\* the values of that portfolio: each returns that value, or what the widget
\* held for the portfolio shown before.  The source does not decide which.

\* the rows of lines 333-338 for the asset list own, when the rows shown
\* before were those of before
RECURSIVE RowsShown(_, _)
RowsShown(own, before) ==
    IF Len(own) = 0 THEN {<<>>}
    ELSE LET i == Len(own)
             held == IF i <= Len(before) THEN before[i] ELSE own[i]
         IN {Append(rows, Asset(ticker, weight)) :
                rows \in RowsShown(SubSeq(own, 1, i - 1), before),
                ticker \in {own[i].ticker, held.ticker},
                weight \in {own[i].weight, held.weight}}

\* what lines 315-338 can leave in the portfolio own that the sidebar turns
\* to; the three withdrawal fields are assigned while the checkbox is ticked
Shown(own, before) ==
    {MakePortfolio(name, rows,
                   [withdrawal_enabled |-> checked,
                    w_rate |-> IF checked THEN rate ELSE own.w_rate,
                    w_inflation |-> IF checked THEN inflation ELSE own.w_inflation,
                    w_start_year |-> IF checked THEN year ELSE own.w_start_year]) :
        name \in {own.name, before.name},
        checked \in {own.withdrawal_enabled, before.withdrawal_enabled},
        rate \in {own.w_rate, before.w_rate},
        inflation \in {own.w_inflation, before.w_inflation},
        year \in {own.w_start_year, before.w_start_year},
        rows \in RowsShown(own.assets, before.assets)}

\* the lists a run can leave that shows portfolio sel of ps after before
Turn(ps, sel, before) == {[ps EXCEPT ![sel] = shown] : shown \in Shown(ps[sel], before)}

\* the lists a run can leave that shows portfolio sel of list: the widgets
\* return what the list stores where the run before showed the same
\* portfolio
View(list, sel) ==
    IF sel = selected_portfolio_idx THEN {list} ELSE Turn(list, sel, curr_p)

\* the selection and the list of a run in which the user left the selectbox
\* and the widgets of the portfolio alone
Arrive ==
    UNION {{[sel |-> sel, ps |-> ps] : ps \in View(portfolios, sel)} :
              sel \in Called(selected_portfolio_idx)}

\* a widget with a key holds what the user entered under key_<index>: the
\* entry reaches the portfolio in a run that shows the same index
Keyed(a, edited) == IF a.sel = selected_portfolio_idx THEN edited ELSE a.ps

\* "初始投資金額"
EditInitialCapital ==
    \E value \in CapitalInputs, a \in Arrive :
        /\ initial_capital' = value
        /\ Script(Names(portfolios), a.ps, a.sel, date_ok)
        /\ UNCHANGED <<monthly_investment, enable_rebalance>>

\* "每月定期定額金額"
EditMonthlyInvestment ==
    \E value \in MonthlyInputs, a \in Arrive :
        /\ monthly_investment' = value
        /\ Script(Names(portfolios), a.ps, a.sel, date_ok)
        /\ UNCHANGED <<initial_capital, enable_rebalance>>

SetDates ==
    \E start_date \in DateInputs, end_date \in DateInputs, a \in Arrive :
        Rerun(Names(portfolios), a.ps, a.sel, start_date < end_date)

\* st.rerun() after a button: the script runs again from the top without
\* the widgets below the button having been called, and the selectbox is
\* called with the labels of the new list; first is what it returned before
\* the button; the rebalancing checkbox keeps its tick or returns to its
\* default
Restart(list, n, first, before) ==
    \E sel \in Reselect(first, n), rebalance \in {enable_rebalance, TRUE} :
        \E ps \in Turn(list, sel, before) :
            /\ enable_rebalance' = rebalance
            /\ Script(Names(list), ps, sel, date_ok)
            /\ UNCHANGED <<initial_capital, monthly_investment>>

\* the user picks portfolio i in the selectbox
SelectPortfolio ==
    \E i \in 1..Len(portfolios) :
        /\ i # selected_portfolio_idx
        /\ \E sel \in Called(i) :
              \E ps \in View(portfolios, sel) :
                  Rerun(Names(portfolios), ps, sel, date_ok)

AddPortfolio ==
    /\ Len(portfolios) < PortfolioCap
    /\ \E first \in Called(selected_portfolio_idx) :
          Restart(Append(portfolios, NewPortfolio(Name(Len(portfolios) + 1, 0))),
                  Len(portfolios) + 1, first, curr_p)

CopyPortfolio ==
    /\ Len(portfolios) < PortfolioCap
    /\ \E first \in Called(selected_portfolio_idx) :
          LET src == portfolios[first]
              copy == [src EXCEPT !.name = Name(src.name.base, src.name.copies + 1)]
          IN Restart(Append(portfolios, copy), Len(portfolios) + 1, first, curr_p)

DeletePortfolio ==
    /\ Len(portfolios) > 1
    /\ \E first \in Called(selected_portfolio_idx) :
          Restart(Pop(portfolios, first), Len(portfolios) - 1, first, curr_p)

\* line 315 assigns the name after line 294 has called the selectbox with
\* the names of the run before: this run keeps the selection, and the next
\* run of the script calls the selectbox with other labels.  The text
\* reaches the portfolio shown, or, in a run that shows another portfolio
\* than the text was typed for, the field returns the name it is called with
RenamePortfolio ==
    \E name \in NameInputs, a \in Arrive :
        \E text \in IF a.sel = selected_portfolio_idx
                    THEN {name} ELSE {name, a.ps[a.sel].name} :
            Rerun(Names(portfolios), [a.ps EXCEPT ![a.sel].name = text], a.sel, date_ok)

\* a widget returns what the user entered, or, the widget being another one
\* than the run before created, the value it is called with
ToggleWithdrawal ==
    \E checked \in BOOLEAN, a \in Arrive :
        Rerun(Names(portfolios), [a.ps EXCEPT ![a.sel].withdrawal_enabled = checked],
              a.sel, date_ok)

\* the three withdrawal fields are shown while the checkbox is ticked; the
\* user enters the settings that are simulated
EditWithdrawalRate ==
    \E value \in {w.w_rate : w \in WithdrawalSettings}, a \in Arrive :
        /\ curr_p.withdrawal_enabled
        /\ Rerun(Names(portfolios),
                 Keyed(a, [portfolios EXCEPT ![selected_portfolio_idx].w_rate = value]),
                 a.sel, date_ok)

EditWithdrawalInflation ==
    \E value \in {w.w_inflation : w \in WithdrawalSettings}, a \in Arrive :
        /\ curr_p.withdrawal_enabled
        /\ Rerun(Names(portfolios),
                 Keyed(a, [portfolios EXCEPT ![selected_portfolio_idx].w_inflation = value]),
                 a.sel, date_ok)

EditWithdrawalStartYear ==
    \E value \in {w.w_start_year : w \in WithdrawalSettings}, a \in Arrive :
        /\ curr_p.withdrawal_enabled
        /\ Rerun(Names(portfolios),
                 Keyed(a, [portfolios EXCEPT ![selected_portfolio_idx].w_start_year = value]),
                 a.sel, date_ok)

\* "增加資產": the row is appended to the portfolio the run shows, before
\* the rows are called
AddAsset ==
    \E sel \in Called(selected_portfolio_idx) :
        /\ Len(portfolios[sel].assets) < AssetCap
        /\ \E ps \in View([portfolios EXCEPT ![sel].assets = Append(@, Asset("SPY", 0))],
                          sel) :
              Rerun(Names(portfolios), ps, sel, date_ok)

\* "減少資產"
RemoveAsset ==
    \E sel \in Called(selected_portfolio_idx) :
        /\ Len(portfolios[sel].assets) > 1
        /\ \E ps \in View([portfolios EXCEPT ![sel].assets = SubSeq(@, 1, Len(@) - 1)],
                          sel) :
              Rerun(Names(portfolios), ps, sel, date_ok)

EditTicker ==
    \E i \in 1..Len(curr_p.assets), text \in TickerInputs, a \in Arrive :
        Rerun(Names(portfolios),
              Keyed(a, [portfolios EXCEPT ![selected_portfolio_idx].assets[i].ticker =
                                              upper(text)]),
              a.sel, date_ok)

EditWeight ==
    \E i \in 1..Len(curr_p.assets), weight \in WeightInputs, a \in Arrive :
        Rerun(Names(portfolios),
              Keyed(a, [portfolios EXCEPT ![selected_portfolio_idx].assets[i].weight =
                                              weight]),
              a.sel, date_ok)

\* "啟用年度再平衡"
ToggleRebalance ==
    \E a \in Arrive :
        /\ enable_rebalance' \in BOOLEAN
        /\ Script(Names(portfolios), a.ps, a.sel, date_ok)
        /\ UNCHANGED <<initial_capital, monthly_investment>>

\* (mutant of ClearResults: a failed run leaves the stored results alone)
KeepResults(res) == res

\* what a run that ends in an error leaves in st.session_state.results
ClearResults(res) == None

\* what a successful run stores
Stored(summary, monthly_data, annual_returns) ==
    <<[summary |-> summary, monthly_data |-> monthly_data,
       annual_returns |-> annual_returns]>>

\* seen from the sidebar, the run appends one summary record for each
\* portfolio of the list, in order
SummaryRecords(ps) == [i \in 1..Len(ps) |-> [name |-> ps[i].name, portfolio |-> i]]

\* and assigns monthly_dfs[p['name']] and annual_returns_data[p['name']] in
\* the same order: a later portfolio of the same name replaces the earlier
KeyedByName(ps) ==
    [n \in {ps[i].name : i \in 1..Len(ps)} |->
        CHOOSE i \in 1..Len(ps) :
            /\ ps[i].name = n
            /\ \A j \in 1..Len(ps) : ps[j].name = n => j <= i]

\* C1: whenever the backtest core runs, every portfolio it simulates has
\* weights that sum to 100, and the start date is before the end date.
C1_SimulatedValid ==
    /\ simulated # <<>> => date_ok
    /\ \A i \in 1..Len(simulated) : TotalWeight(simulated[i]) = 100



\* ------------------------------------------------------------------------
\* The "if run_backtest" block: tickers, fetch, common start, simulations
\* ------------------------------------------------------------------------

MaxRows == 3

\* the sessions a run is started from: the names and the assets of the
\* portfolios of the list, and the portfolio the sidebar shows.  The last but
\* one is the session after "複製組合" was pressed twice on the first
\* portfolio, the last the session after "新增組合", 50 entered as the weight
\* of the first portfolio and the second portfolio selected
BatchSessions ==
    {[names |-> <<DefaultName>>, selected |-> 1,
      assets |-> << <<Asset("QQQ", 100)>> >>],
     [names |-> <<DefaultName>>, selected |-> 1,
      assets |-> << <<Asset("QQQ", 50), Asset("SPY", 50)>> >>],
     [names |-> <<DefaultName, Name(2, 0)>>, selected |-> 1,
      assets |-> << <<Asset("QQQ", 100)>>, <<Asset("SPY", 100)>> >>],
     [names |-> <<DefaultName, Name(2, 0)>>, selected |-> 1,
      assets |-> << <<Asset(CASH0, 100)>>, <<Asset("QQQ", 100)>> >>],
     [names |-> <<DefaultName>>, selected |-> 1,
      assets |-> << <<Asset(CASH0, 100)>> >>],
     [names |-> <<DefaultName, Name(0, 1), Name(0, 1)>>, selected |-> 1,
      assets |-> << <<Asset("QQQ", 100)>>, <<Asset("QQQ", 100)>>,
                    <<Asset("QQQ", 100)>> >>],
     [names |-> <<DefaultName, Name(2, 0)>>, selected |-> 2,
      assets |-> << <<Asset("QQQ", 50)>>, <<Asset("QQQ", 100)>> >>]}

\* the capital and the contribution of the runs
BatchFunding == [initial_capital |-> 8, monthly_investment |-> 4]

BatchPortfolios(session) ==
    [i \in 1..Len(session.assets) |->
        MakePortfolio(session.names[i], session.assets[i], DefaultWithdrawal)]

\* the shapes of the table the data source returns: MultiIndex columns
\* (field, ticker) with or without the "Adj Close" field, and for a single
\* ticker flat columns, with or without it
Schemas(ts) ==
    {"multi", "multi_close"}
    \cup (IF Cardinality(ts) = 1 THEN {"flat", "flat_close"} ELSE {})

SchemaFields(schema) ==
    IF schema \in {"multi", "flat"} THEN Fields ELSE Fields \ {"Adj Close"}

FieldOf(obs, field) ==
    IF field = "Open" THEN obs.Open
    ELSE IF field = "Close" THEN obs.Close
    ELSE obs.AdjClose

\* a month for each row, from the month start on
RECURSIVE Calendar(_, _)
Calendar(n, start) ==
    IF n = 0 THEN <<>>
    ELSE IF n = 1 THEN <<start>>
    ELSE LET head == Calendar(n - 1, start)
             last == head[n - 1]
         IN Append(head, IF last.month = 12
                         THEN [year |-> last.year + 1, month |-> 1]
                         ELSE [year |-> last.year, month |-> last.month + 1])

\* the table of schema for the tickers ts whose row i holds obs[i][t]
MakeTable(schema, ts, start, obs) ==
    LET multi == schema \in {"multi", "multi_close"}
        columns == IF multi THEN SchemaFields(schema) \X ts ELSE SchemaFields(schema)
    IN [multi |-> multi,
        columns |-> columns,
        index |-> Calendar(Len(obs), start),
        data |-> [i \in 1..Len(obs) |->
                    [c \in columns |->
                        IF multi THEN FieldOf(obs[i][c[2]], c[1])
                        ELSE FieldOf(obs[i][CHOOSE t \in ts : TRUE], c)]]]

\* the month of the first row of a fetched table: the second row opens a
\* new year
BatchStartMonths == {12}

\* the tables of n rows, and the table without rows, that yf.download can
\* answer a request for ts with
TablesOfRows(ts, n) ==
    {MakeTable(schema, ts, [year |-> 1, month |-> m], obs) :
        schema \in Schemas(ts), m \in BatchStartMonths,
        obs \in [1..n -> [ts -> {NoData, Flat1, Adjusted32}]]}
    \cup {MakeTable("multi", ts, [year |-> 1, month |-> 1], <<>>)}

\* the tables a run is followed on
Tables(ts) == TablesOfRows(ts, MaxRows)

\* str(e) of the exceptions yf.download raises
Messages == {"", "No data found"}

\* DataFrame.ffill(): a missing value takes the last valid value above it
RECURSIVE LastValid(_, _, _)
LastValid(df, c, i) ==
    IF i = 0 THEN NaN
    ELSE IF ~isna(df.data[i][c]) THEN df.data[i][c]
    ELSE LastValid(df, c, i - 1)

ffill(df) ==
    [df EXCEPT !.data = [i \in 1..Len(df.data) |->
                            [c \in df.columns |-> LastValid(df, c, i)]]]

\* Series.first_valid_index() of column c from row i on; 0 stands for None
RECURSIVE FirstValidFrom(_, _, _)
FirstValidFrom(df, c, i) ==
    IF i > Len(df.data) THEN 0
    ELSE IF ~isna(df.data[i][c]) THEN i
    ELSE FirstValidFrom(df, c, i + 1)

first_valid_index(df, c) == FirstValidFrom(df, c, 1)

\* fvi of ticker t
fvi(df, t) ==
    IF df.multi
    THEN IF <<"Adj Close", t>> \in df.columns
         THEN first_valid_index(df, <<"Adj Close", t>>)
         ELSE IF <<"Close", t>> \in df.columns
         THEN first_valid_index(df, <<"Close", t>>)
         ELSE 0
    ELSE IF "Adj Close" \in df.columns
         THEN first_valid_index(df, "Adj Close")
         ELSE 0

\* the orders in which "for t in all_active_tickers" may visit the set: the
\* iteration order of a set of strings follows the hash seed of the process
IterationOrders(ts) ==
    {order \in [1..Cardinality(ts) -> ts] :
        \A t \in ts : \E i \in 1..Cardinality(ts) : order[i] = t}

\* the loop "for t in all_active_tickers" that collects valid_starts, the
\* set visited in the given order
RECURSIVE CollectStarts(_, _)
CollectStarts(df, order) ==
    IF Len(order) = 0 THEN <<>>
    ELSE LET t == order[1]
             rest == CollectStarts(df, SubSeq(order, 2, Len(order)))
         IN IF fvi(df, t) # 0 THEN <<fvi(df, t)>> \o rest ELSE rest

\* (mutant of max: the earliest of the dates)
min_of_list(vs) == CHOOSE v \in {vs[i] : i \in 1..Len(vs)} :
                       \A i \in 1..Len(vs) : v <= vs[i]

max(vs) == CHOOSE v \in {vs[i] : i \in 1..Len(vs)} :
               \A i \in 1..Len(vs) : v >= vs[i]

\* (mutant of Reinitialised: prev_mo is not among the assignments)
ReinitialisedButMonth(prev, p, capital, first_date) ==
    [prev EXCEPT
        !.cash_account = Rat(capital),
        !.holdings = [t \in KeySet(p) |-> [shares |-> 0, cash_asset_currency |-> Zero]],
        !.total_invested = Rat(capital),
        !.history = <<>>,
        !.xirr_flows = IF capital > 0
                       THEN <<[date |-> first_date, amount |-> Rat(-capital)]>>
                       ELSE <<>>,
        !.curr_yr = -1, !.yr_cnt = 0, !.ann_budg = Zero, !.cum_wd = Zero,
        !.lookups = {}]

\* the variables of the simulation are module-level variables, and prev
\* holds what the pass before left in them: lines 450-461 assign
\* cash_account, holdings, total_invested, history, xirr_flows, curr_yr,
\* yr_cnt, ann_budg, cum_wd and prev_mo anew (alloc_map and the w_ settings
\* are read from p), and every other variable keeps its value
Reinitialised(prev, p, capital, first_date) ==
    [prev EXCEPT
        !.cash_account = Rat(capital),
        !.holdings = [t \in KeySet(p) |-> [shares |-> 0, cash_asset_currency |-> Zero]],
        !.total_invested = Rat(capital),
        !.history = <<>>,
        !.xirr_flows = IF capital > 0
                       THEN <<[date |-> first_date, amount |-> Rat(-capital)]>>
                       ELSE <<>>,
        !.curr_yr = -1, !.yr_cnt = 0, !.ann_budg = Zero, !.cum_wd = Zero, !.prev_mo = -1,
        !.lookups = {}]

\* the pass of "for p in ..." for portfolio p over the dates first..last
SimulateAfter(prev, p, df, first, last, capital, monthly, rebalance) ==
    FinishStep(SimulateFrom(Reinitialised(prev, p, capital, first), p, df, first, last,
                            rebalance, monthly),
               last)

\* what an earlier successful run of the session left in the session state
PreviousResults ==
    Stored(SummaryRecords(<<NewPortfolio(DefaultName)>>),
           KeyedByName(<<NewPortfolio(DefaultName)>>),
           KeyedByName(<<NewPortfolio(DefaultName)>>))

\* the rows of history that fall in the months (or years) of the set keys,
\* where key(date) is the month (or year) of a date
RowsIn(history, index, key(_), k) ==
    {r \in 1..Len(history) : key(index[history[r].Date]) = k}

FirstOf(rows) == CHOOSE r \in rows : \A q \in rows : r <= q

\* (mutant of LastOf: the first row stands for the last)
LastOfEarliest(rows) == CHOOSE r \in rows : \A q \in rows : r <= q

LastOf(rows) == CHOOSE r \in rows : \A q \in rows : r >= q

MonthOf(date) == <<date.year, date.month>>

YearOf(date) == date.year

\* df_res.resample('ME').agg(...): for each month of the history the last
\* total value, the last invested capital and the sum of the withdrawals
MonthlyTable(history, index) ==
    LET months == {MonthOf(index[history[r].Date]) : r \in 1..Len(history)}
    IN [m \in months |->
           LET rows == RowsIn(history, index, MonthOf, m)
           IN [TotalValue |-> history[LastOf(rows)].TotalValue,
               InvestedCapital |-> history[LastOf(rows)].InvestedCapital,
               Withdrawal |-> RSum([r \in rows |-> history[r].Withdrawal], rows)]]

\* ann_ret_labels: for each year of the history, last value of the year over
\* the last value of the year before it (the first value of the year, for
\* the first year), less one; 0 when the divisor is not positive
AnnualReturns(history, index) ==
    LET years == {YearOf(index[history[r].Date]) : r \in 1..Len(history)}
    IN [y \in years |->
           LET df_y == RowsIn(history, index, YearOf, y)
               end_val == history[LastOf(df_y)].TotalValue
               earlier == {x \in years : x < y}
               start_val ==
                   IF earlier = {}
                   THEN history[FirstOf(df_y)].TotalValue
                   ELSE LET prev == CHOOSE x \in earlier : \A z \in earlier : x >= z
                        IN history[LastOf(RowsIn(history, index, YearOf, prev))].TotalValue
           IN IF RGt(start_val, Zero)
              THEN RSub(RDiv(end_val, start_val), Rat(1))
              ELSE Zero]

\* "開始計算": the button is enabled by the can_run of the run before; the
\* run that serves the press calls the selectbox and the widgets of the
\* portfolio like any other, and enters the "if run_backtest" block whatever
\* its own can_run.  Seen from the sidebar, the block requests the tickers
\* of the list, the data source raises or returns a table, and a table with
\* a valid start has every portfolio of the list simulated: one summary
\* record each, in order
RunBacktest ==
    /\ can_run
    /\ clicks < MaxClicks
    /\ clicks' = clicks + 1
    /\ options' = Names(portfolios)
    /\ \E a \in Arrive :
          /\ portfolios' = a.ps
          /\ selected_portfolio_idx' = a.sel
    /\ all_tickers' = RequestedTickers(portfolios')
    /\ IF all_tickers' = {} /\ ~has_cash0(portfolios')
       THEN /\ run_pc' = "no_asset"
            /\ fetched' = NoTable
            /\ market_data' = NoTable
            /\ valid_starts' = <<>>
            /\ common_start' = 0
       ELSE \/ \E error \in Messages :
                  /\ run_pc' = IF error # "" THEN "error" ELSE "empty"
                  /\ fetched' = NoTable
                  /\ market_data' = NoTable
                  /\ valid_starts' = <<>>
                  /\ common_start' = 0
            \/ \E table \in TablesOfRows(all_tickers', 1),
                  order \in IterationOrders(all_tickers') :
                  LET rows == Len(table.index)
                      df == IF rows = 0 THEN table ELSE ffill(table)
                      vs == IF rows = 0 THEN <<>> ELSE CollectStarts(df, order)
                  IN /\ fetched' = table
                     /\ market_data' = df
                     /\ valid_starts' = vs
                     /\ common_start' = IF vs = <<>> THEN 0 ELSE max(vs)
                     /\ run_pc' = IF rows = 0 THEN "empty"
                                  ELSE IF vs = <<>> THEN "no_valid_start"
                                  ELSE "done"
    /\ simulated' = IF run_pc' = "done" THEN portfolios' ELSE <<>>
    /\ results_list' = IF run_pc' = "done" THEN SummaryRecords(portfolios') ELSE <<>>
    /\ monthly_dfs' = IF run_pc' = "done" THEN KeyedByName(portfolios') ELSE <<>>
    /\ annual_returns_data' = monthly_dfs'
    /\ results' = IF run_pc' = "done"
                  THEN Stored(results_list', monthly_dfs', annual_returns_data')
                  ELSE ClearResults(results)
    /\ UNCHANGED <<date_ok, portfolio, initial_capital, monthly_investment,
                   enable_rebalance, sim, pc, owned, calcVars>>

NextUI ==
    \/ EditInitialCapital
    \/ EditMonthlyInvestment
    \/ SetDates
    \/ SelectPortfolio
    \/ AddPortfolio
    \/ CopyPortfolio
    \/ DeletePortfolio
    \/ RenamePortfolio
    \/ ToggleWithdrawal
    \/ EditWithdrawalRate
    \/ EditWithdrawalInflation
    \/ EditWithdrawalStartYear
    \/ AddAsset
    \/ RemoveAsset
    \/ EditTicker
    \/ EditWeight
    \/ ToggleRebalance
    \/ RunBacktest

SpecUI == UIStart /\ [][NextUI]_vars

\* the "if run_backtest" block is entered when "開始計算" was pressed, and
\* the button is disabled unless can_run
BatchStart ==
    /\ \E session \in BatchSessions :
          /\ portfolios = BatchPortfolios(session)
          /\ selected_portfolio_idx = session.selected
          /\ options = Names(portfolios)
    /\ date_ok = TRUE
    /\ can_run
    /\ simulated = <<>>
    /\ clicks = 0
    /\ initial_capital = BatchFunding.initial_capital
    /\ monthly_investment = BatchFunding.monthly_investment
    /\ enable_rebalance = TRUE
    /\ portfolio = portfolios[1]
    /\ market_data = [multi |-> TRUE, columns |-> {}, index |-> <<>>, data |-> <<>>]
    /\ sim = SimInit(portfolio, initial_capital, 1)
    /\ pc = "idle"
    /\ run_pc = "collect"
    /\ all_tickers = {}
    /\ valid_starts = <<>>
    /\ common_start = 0
    /\ results_list = <<>>
    /\ owned = <<>>
    /\ fetched = market_data
    /\ monthly_dfs = <<>>
    /\ annual_returns_data = <<>>
    /\ call = NoCall
    /\ returned = NoCall
    /\ results \in {None, PreviousResults}

\* the tickers of the run and the test for a list without any asset
CollectTickers ==
    /\ run_pc = "collect"
    /\ all_tickers' = RequestedTickers(portfolios)
    /\ run_pc' = IF RequestedTickers(portfolios) = {} /\ ~has_cash0(portfolios)
                 THEN "no_asset" ELSE "fetch"
    /\ results' = IF run_pc' = "no_asset" THEN ClearResults(results) ELSE results
    /\ UNCHANGED <<simVars, uiVars, valid_starts, common_start, results_list, owned,
                   fetched, monthly_dfs, annual_returns_data, calcVars>>

\* fetch_data caught an exception of the data source and returned
\* (None, str(e), []): "if error:" holds for a message that is not empty;
\* with the empty message line 411 finds market_data None
FetchError ==
    /\ run_pc = "fetch"
    /\ \E error \in Messages :
          run_pc' = IF error # "" THEN "error" ELSE "empty"
    /\ results' = ClearResults(results)
    /\ UNCHANGED <<simVars, uiVars, all_tickers, valid_starts, common_start,
                   results_list, owned, fetched, monthly_dfs, annual_returns_data,
                   calcVars>>

\* fetch_data returned a table: an empty one ends the run, any other is
\* forward-filled
FetchTable ==
    /\ run_pc = "fetch"
    /\ \E table \in Tables(all_tickers) :
          /\ fetched' = table
          /\ market_data' = IF Len(table.index) = 0 THEN table ELSE ffill(table)
          /\ run_pc' = IF Len(table.index) = 0 THEN "empty" ELSE "valid_starts"
          /\ results' = IF Len(table.index) = 0 THEN ClearResults(results) ELSE results
    /\ UNCHANGED <<portfolio, initial_capital, monthly_investment, enable_rebalance,
                   sim, pc, uiVars, all_tickers, valid_starts, common_start,
                   results_list, owned, monthly_dfs, annual_returns_data, calcVars>>

\* the first valid date of every ticker, and their maximum
ValidStarts ==
    /\ run_pc = "valid_starts"
    /\ \E order \in IterationOrders(all_tickers) :
          LET vs == CollectStarts(market_data, order)
          IN /\ valid_starts' = vs
             /\ common_start' = IF vs = <<>> THEN common_start ELSE max(vs)
             /\ run_pc' = IF vs = <<>> THEN "no_valid_start" ELSE "simulate"
             /\ results' = IF vs = <<>> THEN ClearResults(results) ELSE results
    /\ UNCHANGED <<simVars, uiVars, all_tickers, results_list, owned, fetched,
                   monthly_dfs, annual_returns_data, calcVars>>

\* one pass of "for p in st.session_state.portfolios"
SimulatePortfolio ==
    /\ run_pc = "simulate"
    /\ Len(results_list) < Len(portfolios)
    /\ LET p == portfolios[Len(results_list) + 1]
       IN /\ portfolio' = p
          /\ sim' = SimulateAfter(sim, p, market_data, common_start,
                                  Len(market_data.index), initial_capital,
                                  monthly_investment, enable_rebalance)
          /\ results_list' = Append(results_list, [name |-> p.name, sim |-> sim'])
          /\ simulated' = Append(simulated, p)
          /\ monthly_dfs' =
                (p.name :> MonthlyTable(sim'.history, market_data.index)) @@ monthly_dfs
          /\ annual_returns_data' =
                (p.name :> AnnualReturns(sim'.history, market_data.index))
                @@ annual_returns_data
    /\ UNCHANGED <<initial_capital, monthly_investment, enable_rebalance, market_data,
                   pc, portfolios, selected_portfolio_idx, date_ok, clicks, options, run_pc,
                   all_tickers, valid_starts, common_start, owned, fetched, results,
                   calcVars>>

\* the results of the run are stored in the session
StoreResults ==
    /\ run_pc = "simulate"
    /\ Len(results_list) = Len(portfolios)
    /\ run_pc' = "done"
    /\ results' = Stored(results_list, monthly_dfs, annual_returns_data)
    /\ UNCHANGED <<simVars, uiVars, all_tickers, valid_starts, common_start,
                   results_list, owned, fetched, monthly_dfs, annual_returns_data,
                   calcVars>>

NextBatch ==
    \/ CollectTickers
    \/ FetchError
    \/ FetchTable
    \/ ValidStarts
    \/ SimulatePortfolio
    \/ StoreResults

SpecBatch == BatchStart /\ [][NextBatch]_vars


\* the column of the fetched table that decides whether ticker t has an
\* observation: adjusted close, or close where a MultiIndex table has no
\* adjusted-close column for t
DecidingColumn(t) ==
    IF fetched.multi /\ <<"Adj Close", t>> \notin fetched.columns
    THEN "Close" ELSE "Adj Close"

Observed(t, d) == ~isna(get_val(fetched, d, t, DecidingColumn(t)))

Rows == 1..Len(fetched.index)

WithData == {t \in all_tickers : \E d \in Rows : Observed(t, d)}

FirstObserved(t) == CHOOSE d \in Rows : Observed(t, d) /\ \A e \in 1..(d - 1) : ~Observed(t, e)

\* C10: once a run has a common start, it is the latest of the first dates
\* on which the requested tickers have a valid adjusted-close (or close)
\* observation, tickers without any observation aside: every ticker with
\* data is first observed on or before it and one of them exactly on it.
\* Every portfolio simulated has one history row for each date of the table
\* from the common start on, in order, and no cash flow dated before it.
C10_CommonStart ==
    run_pc \in {"simulate", "done"} =>
        /\ WithData # {}
        /\ \A t \in WithData : FirstObserved(t) <= common_start
        /\ \E t \in WithData : FirstObserved(t) = common_start
        /\ \A i \in 1..Len(results_list) :
              LET r == results_list[i].sim
              IN /\ Len(r.history) = Len(fetched.index) - common_start + 1
                 /\ \A k \in 1..Len(r.history) : r.history[k].Date = common_start + k - 1
                 /\ \A k \in 1..Len(r.xirr_flows) : r.xirr_flows[k].date >= common_start

\* two tickers first observed on different dates, the later one after the
\* first row, and both portfolios of the list simulated
C10_Witness ==
    /\ run_pc = "done"
    /\ Len(results_list) = 2
    /\ \E t, u \in WithData : FirstObserved(t) < FirstObserved(u)
    /\ common_start > 1
    /\ common_start < Len(fetched.index)

\* ticker t has an observation on row d of the forward-filled table: one of
\* open, close and adjusted close is present
HasObservation(t, d) ==
    \E field \in Fields : ~isna(get_val(market_data, d, t, field))

\* C11 (as claimed): on every simulated day every requested ticker of the
\* run has a price observation.
C11_EverySymbolPriced ==
    (run_pc \in {"simulate", "done"} /\ results_list # <<>>) =>
        \A t \in all_tickers :
            \A k \in 1..Len(results_list[1].sim.history) :
                HasObservation(t, results_list[1].sim.history[k].Date)

\* the ends of a run on unavailable data: the data source failed, with or
\* without a message, the table has no row, no ticker has a valid first date
DataErrors == {"error", "empty", "no_valid_start"}

\* C12: when a run has ended with a data-unavailability error, no portfolio
\* was simulated, the run has produced no summary record, monthly table or
\* annual-return mapping, and the stored results are None, whatever an
\* earlier run had stored.
C12_ErrorStoresNothing ==
    run_pc \in DataErrors =>
        /\ simulated = <<>>
        /\ results_list = <<>>
        /\ DOMAIN monthly_dfs = {}
        /\ DOMAIN annual_returns_data = {}
        /\ results = <<>>

\* a table with rows was fetched for two tickers and none of them has a
\* valid first date
C12_Witness ==
    /\ run_pc = "no_valid_start"
    /\ Cardinality(all_tickers) = 2
    /\ Len(fetched.index) > 0
    /\ results = <<>>

\* C13 (as claimed): after a successful run the stored results hold as many
\* monthly tables and as many annual-return mappings as summary records.
C13_OneTablePerRecord ==
    run_pc = "done" =>
        /\ results # <<>>
        /\ Len(results[1].summary) = Len(portfolios)
        /\ Cardinality(DOMAIN results[1].monthly_data) = Len(results[1].summary)
        /\ Cardinality(DOMAIN results[1].annual_returns) = Len(results[1].summary)

\* ------------------------------------------------------------------------
\* The passes of a run and simulations that own their variables
\* ------------------------------------------------------------------------

MaxOwnDays == 3

\* the portfolios of the lists: one that withdraws from the first year on,
\* one of two priced assets that is rebalanced, one with a cash sleeve that
\* withdraws from the second year on
OrderPortfolios ==
    <<MakePortfolio(DefaultName, <<Asset("QQQ", 100)>>,
                    [withdrawal_enabled |-> TRUE, w_rate |-> Rat(75),
                     w_inflation |-> Frac(25, 2), w_start_year |-> 1]),
      MakePortfolio(Name(2, 0), <<Asset("SPY", 50), Asset("QQQ", 50)>>,
                    DefaultWithdrawal),
      MakePortfolio(Name(3, 0), <<Asset(CASH0, 50), Asset("QQQ", 50)>>,
                    [withdrawal_enabled |-> TRUE, w_rate |-> Rat(75),
                     w_inflation |-> Frac(25, 2), w_start_year |-> 2])>>

\* the lists of two or three of them, in every order
OrderLists ==
    {[k \in DOMAIN order |-> OrderPortfolios[order[k]]] :
        order \in {o \in UNION {[1..n -> DOMAIN OrderPortfolios] : n \in 2..3} :
                      \A j, k \in DOMAIN o : j # k => o[j] # o[k]}}

\* the tables of one row and of MaxOwnDays rows, a month each from December
\* on, in which every ticker has an observation on every row
OrderTables(ts) ==
    {MakeTable("multi", ts, [year |-> 1, month |-> 12], obs) :
        obs \in UNION {[1..n -> [ts -> {Flat1, Adjusted32}]] : n \in {1, MaxOwnDays}}}

\* a run that has its table and its common start, and for every portfolio
\* of the list a simulation whose variables lines 450-461 have initialised
\* and that no other simulation assigns
OrderStart ==
    /\ portfolios \in OrderLists
    /\ selected_portfolio_idx = 1
    /\ options = Names(portfolios)
    /\ date_ok = TRUE
    /\ simulated = <<>>
    /\ clicks = 0
    /\ initial_capital = BatchFunding.initial_capital
    /\ monthly_investment = BatchFunding.monthly_investment
    /\ enable_rebalance = TRUE
    /\ portfolio = portfolios[1]
    /\ all_tickers = RequestedTickers(portfolios)
    /\ market_data \in OrderTables(all_tickers)
    /\ fetched = market_data
    /\ sim = SimInit(portfolio, initial_capital, 1)
    /\ pc = "idle"
    /\ run_pc = "simulate"
    /\ valid_starts \in {CollectStarts(market_data, order) :
                            order \in IterationOrders(all_tickers)}
    /\ common_start = max(valid_starts)
    /\ results_list = <<>>
    /\ owned = [i \in 1..Len(portfolios) |->
                   SimInit(portfolios[i], initial_capital, common_start)]
    /\ monthly_dfs = <<>>
    /\ annual_returns_data = <<>>
    /\ call = NoCall
    /\ returned = NoCall
    /\ results = None

\* a pass of "for p in st.session_state.portfolios" begins: lines 447-461
StartPass ==
    /\ run_pc = "simulate"
    /\ Len(results_list) < Len(portfolios)
    /\ portfolio' = portfolios[Len(results_list) + 1]
    /\ sim' = Reinitialised(sim, portfolio', initial_capital, common_start)
    /\ run_pc' = "days"
    /\ UNCHANGED <<initial_capital, monthly_investment, enable_rebalance, market_data,
                   pc, uiVars, all_tickers, valid_starts, common_start, results_list,
                   owned, fetched, outVars, calcVars>>

\* the body of "for d in dates" once: for the pass of the run, on the
\* shared variables, or, once the run has stored its results, for any
\* portfolio of the list that has days left, on the variables of its own
\* simulation
Day ==
    \E i \in 0..Len(portfolios) :
        LET s == IF i = 0 THEN sim ELSE owned[i]
            p == IF i = 0 THEN portfolio ELSE portfolios[i]
            d == common_start + Len(s.history)
        IN /\ run_pc = (IF i = 0 THEN "days" ELSE "done")
           /\ d <= Len(market_data.index)
           /\ \E after \in {DayStep(s, p, market_data, d, enable_rebalance,
                                    monthly_investment)} :
                 /\ sim' = IF i = 0 THEN after ELSE sim
                 /\ owned' = IF i = 0 THEN owned ELSE [owned EXCEPT ![i] = after]
           /\ UNCHANGED <<portfolio, initial_capital, monthly_investment,
                          enable_rebalance, market_data, pc, uiVars, run_pc,
                          all_tickers, valid_starts, common_start, results_list,
                          fetched, outVars, calcVars>>

\* the pass ends after the last date: lines 585-643
EndPass ==
    /\ run_pc = "days"
    /\ common_start + Len(sim.history) > Len(market_data.index)
    /\ sim' = FinishStep(sim, Len(market_data.index))
    /\ results_list' = Append(results_list, [name |-> portfolio.name, sim |-> sim'])
    /\ simulated' = Append(simulated, portfolio)
    /\ monthly_dfs' =
          (portfolio.name :> MonthlyTable(sim'.history, market_data.index)) @@ monthly_dfs
    /\ annual_returns_data' =
          (portfolio.name :> AnnualReturns(sim'.history, market_data.index))
          @@ annual_returns_data
    /\ run_pc' = "simulate"
    /\ UNCHANGED <<portfolio, initial_capital, monthly_investment, enable_rebalance,
                   market_data, pc, portfolios, selected_portfolio_idx, date_ok, clicks, options,
                   all_tickers, valid_starts, common_start, owned, fetched, results,
                   calcVars>>

NextOrder ==
    \/ StartPass
    \/ Day
    \/ EndPass
    \/ StoreResults

SpecOrder == OrderStart /\ [][NextOrder]_vars

\* C14: no simulation state passes from one portfolio of a run to the next.
\* Whatever the passes of the run before it left in the shared variables,
\* the pass of a portfolio produces the daily history that a simulation of
\* the portfolio on variables of its own produces, day by day in any
\* interleaving with the simulations of the other portfolios, and, once that
\* simulation has processed every day, its cash flows, holdings and
\* withdrawn total; the lists hold the portfolios in every order.
C14_SameOnOwnVariables ==
    \A i \in 1..Len(results_list) :
        LET shared == results_list[i].sim
            own == owned[i]
            n == Len(own.history)
        IN /\ own.history = SubSeq(shared.history, 1, n)
           /\ n = Len(shared.history) =>
                 /\ FinishStep(own, Len(market_data.index)).xirr_flows = shared.xirr_flows
                 /\ own.holdings = shared.holdings
                 /\ own.cum_wd = shared.cum_wd

\* a run of three portfolios over three days has stored its results, the
\* first portfolio has withdrawn, and of the simulations on own variables
\* the last of the list is complete while the first has processed one day
C14_Witness ==
    /\ run_pc = "done"
    /\ Len(results_list) = 3
    /\ Len(market_data.index) = 3
    /\ portfolios[1].withdrawal_enabled
    /\ RGt(results_list[1].sim.cum_wd, Zero)
    /\ Len(owned[3].history) = 3
    /\ Len(owned[1].history) = 1
    /\ results_list[1].sim.history # results_list[3].sim.history

\* ------------------------------------------------------------------------
\* The functions of the program, called on their own
\* ------------------------------------------------------------------------

MaxFlows == 2

\* Python's min(a, b) and max(a, b) on floats: a unless b compares below
\* (above) it, so a NaN in second place is never chosen
\* (mutant of py_min: the second argument is returned as it is)
py_min_second(a, b) == b

py_min(a, b) == IF RLt(b, a) THEN b ELSE a

py_max(a, b) == IF RGt(b, a) THEN b ELSE a

\* what scipy.optimize.newton(npv, 0.1, maxiter=50) comes to: an exception
\* (no convergence within maxiter, or an exception of npv), or a float, that
\* may be NaN or lie anywhere
NewtonOutcomes ==
    {[raised |-> TRUE, result |-> NaN]}
    \cup {[raised |-> FALSE, result |-> r] :
             r \in {NaN, Rat(-2), Rat(-1), Frac(-1, 2), Zero, Frac(1, 10), Rat(10),
                    Rat(11)}}

\* xirr(cash_flows): unpacking an empty list raises and the outer handler
\* returns 0.0; fewer than two flows return 0.0; an exception of the
\* root-finder returns 0.0; its result is capped to [-1, 10]
xirr(cash_flows, newton) ==
    IF Len(cash_flows) = 0 THEN Zero
    ELSE IF Len(cash_flows) < 2 THEN Zero
    ELSE IF newton.raised THEN Zero
    ELSE py_max(Rat(-1), py_min(Rat(10), newton.result))

\* the lists of up to n dated cash flows
RECURSIVE FlowLists(_)
FlowLists(n) ==
    IF n = 0 THEN {<<>>}
    ELSE LET shorter == FlowLists(n - 1)
         IN shorter
            \cup {Append(fl, [date |-> d, amount |-> a]) :
                     fl \in {x \in shorter : Len(x) = n - 1},
                     d \in {1, 2}, a \in {Rat(-8), Rat(4), Rat(12)}}

XirrCalls == {[fn |-> "xirr", cash_flows |-> fl] : fl \in FlowLists(MaxFlows)}

MaxSeries == 3

\* the largest of the values
SeriesMax(values) ==
    CHOOSE m \in {values[i] : i \in 1..Len(values)} :
        \A i \in 1..Len(values) : RLe(values[i], m)

\* (mutant of cummax: every day carries the largest value of the series)
cummax_whole(values) == [i \in 1..Len(values) |-> SeriesMax(values)]

\* Series.cummax(): the largest value up to each day
cummax(values) == [i \in 1..Len(values) |-> SeriesMax(SubSeq(values, 1, i))]

\* Series.idxmin() and Series.idxmax(): the first position of the smallest
\* (largest) value
idxmin(values) ==
    CHOOSE i \in 1..Len(values) :
        /\ \A j \in 1..Len(values) : RLe(values[i], values[j])
        /\ \A j \in 1..(i - 1) : RGt(values[j], values[i])

idxmax(values) ==
    CHOOSE i \in 1..Len(values) :
        /\ \A j \in 1..Len(values) : RGe(values[i], values[j])
        /\ \A j \in 1..(i - 1) : RLt(values[j], values[i])

\* the maximum drawdown of the total values of a history: its depth, and
\* for a negative depth the trough, the peak before it and the day of
\* recovery (0: not recovered); positions count from 1
MaxDrawdown(values) ==
    LET roll_max == cummax(values)
        dd == [i \in 1..Len(values) |->
                  RDiv(RSub(values[i], roll_max[i]), roll_max[i])]
        mdd == dd[idxmin(dd)]
    IN IF RLt(mdd, Zero)
       THEN LET mdd_date == idxmin(dd)
                peak_date == idxmax(SubSeq(roll_max, 1, mdd_date))
                recovered == {j \in mdd_date..Len(values) :
                                 RGe(values[j], roll_max[mdd_date])}
            IN [mdd |-> mdd, plain |-> FALSE, peak_date |-> peak_date,
                mdd_date |-> mdd_date,
                recovery_date |-> IF recovered # {} THEN FirstOf(recovered) ELSE 0]
       ELSE [mdd |-> mdd, plain |-> TRUE, peak_date |-> 0, mdd_date |-> 0,
             recovery_date |-> 0]

\* the series of one to n positive total values
RECURSIVE ValueSeries(_)
ValueSeries(n) ==
    IF n = 1 THEN {<<v>> : v \in {Rat(80), Rat(100), Rat(120)}}
    ELSE LET shorter == ValueSeries(n - 1)
         IN shorter
            \cup {Append(vs, v) : vs \in {x \in shorter : Len(x) = n - 1},
                                  v \in {Rat(80), Rat(100), Rat(120)}}

MddCalls == {[fn |-> "mdd", values |-> vs] : vs \in ValueSeries(MaxSeries)}

\* the histories of one to n rows: the years of the rows never decrease,
\* the total values are not negative
RECURSIVE Histories(_)
Histories(n) ==
    LET rows == [year : {2020, 2021, 2023}, TotalValue : {Zero, Rat(80), Rat(100)},
                 Withdrawal : {Zero, Rat(20)}]
    IN IF n = 1 THEN {<<r>> : r \in rows}
       ELSE LET shorter == Histories(n - 1)
            IN shorter
               \cup {Append(h, r) : h \in {x \in shorter : Len(x) = n - 1},
                                    r \in rows}

AnnualCalls ==
    {[fn |-> "annual",
      index |-> [i \in 1..Len(h) |-> [year |-> h[i].year, month |-> 1]],
      history |-> [i \in 1..Len(h) |->
                      [Date |-> i, TotalValue |-> h[i].TotalValue,
                       Withdrawal |-> h[i].Withdrawal]]] :
        h \in {x \in Histories(MaxSeries) :
                  \A i \in 1..(Len(x) - 1) : x[i].year <= x[i + 1].year}}

\* get_stock_data applied to the tables fetched for QQQ, of every shape,
\* with one row whose three cells are each missing, zero or a price, or
\* with no row; to the date of that row and to a date the table lacks; to
\* QQQ and to a symbol that was not fetched
ResolverCalls ==
    {[fn |-> "get_stock_data", df |-> df, dt |-> dt, ticker |-> t] :
        df \in {MakeTable(schema, {"QQQ"}, [year |-> 1, month |-> 1], <<[QQQ |-> o]>>) :
                   schema \in Schemas({"QQQ"}),
                   o \in [Open : {NaN, Zero, Rat(3)}, Close : {NaN, Zero, Rat(2)},
                          AdjClose : {NaN, Zero, Rat(1)}]}
                \cup {MakeTable("multi", {"QQQ"}, [year |-> 1, month |-> 1], <<>>)},
        dt \in {1, 2},
        t \in {"QQQ", "SPY"}}

Calls == XirrCalls \cup MddCalls \cup AnnualCalls \cup ResolverCalls

CalcStart ==
    /\ call \in Calls
    /\ returned = NoCall
    /\ portfolios = <<NewPortfolio(DefaultName)>>
    /\ selected_portfolio_idx = 1
    /\ options = Names(portfolios)
    /\ date_ok = TRUE
    /\ simulated = <<>>
    /\ clicks = 0
    /\ run_pc = "idle"
    /\ portfolio = NewPortfolio(DefaultName)
    /\ initial_capital = 0
    /\ monthly_investment = 2000
    /\ enable_rebalance = TRUE
    /\ market_data = [multi |-> TRUE, columns |-> {}, index |-> <<>>, data |-> <<>>]
    /\ sim = SimInit(portfolio, initial_capital, 1)
    /\ pc = "idle"
    /\ all_tickers = {}
    /\ valid_starts = <<>>
    /\ common_start = 0
    /\ results_list = <<>>
    /\ owned = <<>>
    /\ fetched = market_data
    /\ monthly_dfs = <<>>
    /\ annual_returns_data = <<>>
    /\ results = None

CallXirr ==
    /\ call.fn = "xirr"
    /\ returned = NoCall
    /\ \E newton \in NewtonOutcomes :
          returned' = [fn |-> "xirr", newton |-> newton,
                       value |-> xirr(call.cash_flows, newton)]
    /\ UNCHANGED <<simVars, uiVars, runVars, call>>

CallMaxDrawdown ==
    /\ call.fn = "mdd"
    /\ returned = NoCall
    /\ returned' = [fn |-> "mdd", value |-> MaxDrawdown(call.values)]
    /\ UNCHANGED <<simVars, uiVars, runVars, call>>

CallAnnualReturns ==
    /\ call.fn = "annual"
    /\ returned = NoCall
    /\ returned' = [fn |-> "annual", value |-> AnnualReturns(call.history, call.index)]
    /\ UNCHANGED <<simVars, uiVars, runVars, call>>

CallGetStockData ==
    /\ call.fn = "get_stock_data"
    /\ returned = NoCall
    /\ returned' = [fn |-> "get_stock_data",
                    value |-> get_stock_data(call.df, call.dt, call.ticker)]
    /\ UNCHANGED <<simVars, uiVars, runVars, call>>

NextCalc ==
    \/ CallGetStockData
    \/ CallXirr
    \/ CallMaxDrawdown
    \/ CallAnnualReturns

SpecCalc == CalcStart /\ [][NextCalc]_vars

\* C15: xirr returns a number, never NaN, within [-1, 10], and 0 when it
\* is given fewer than two cash flows or when the root-finder raises (it
\* did not converge).
C15_XirrTotal ==
    returned.fn = "xirr" =>
        /\ ~isna(returned.value)
        /\ RLe(Rat(-1), returned.value) /\ RLe(returned.value, Rat(10))
        /\ (Len(call.cash_flows) < 2 \/ returned.newton.raised) => returned.value = Zero

\* two cash flows and a root-finder that did not converge
C15_Witness ==
    /\ returned.fn = "xirr"
    /\ Len(call.cash_flows) = 2
    /\ returned.newton.raised

\* the running maximum in force on day i of the series of the call, and the
\* drawdown of day i against it
RunningMax(i) ==
    CHOOSE m \in {call.values[j] : j \in 1..i} : \A j \in 1..i : RLe(call.values[j], m)

Drawdown(i) == RDiv(RSub(call.values[i], RunningMax(i)), RunningMax(i))

Days == 1..Len(call.values)

\* C16: for a series of positive total values the maximum drawdown is the
\* least drawdown of any day against the running maximum; it is at most 0
\* and 0, reported plainly, exactly when the series never decreases;
\* otherwise the trough is the first day of that drawdown, the peak the
\* first day at or before the trough that reached the running maximum in
\* force at the trough, and the recovery the first day at or after the
\* trough whose value is at least that running maximum, absent when there
\* is none.  [100, 80, 120] gives -1/5 with peak, trough and recovery on
\* the first, second and third day.
C16_MaxDrawdown ==
    returned.fn = "mdd" =>
        LET r == returned.value
            never_decreases ==
                \A i \in Days : i > 1 => RLe(call.values[i - 1], call.values[i])
        IN /\ \A i \in Days : RLe(r.mdd, Drawdown(i))
           /\ \E i \in Days : r.mdd = Drawdown(i)
           /\ RLe(r.mdd, Zero)
           /\ never_decreases <=> r.mdd = Zero
           /\ never_decreases <=> r.plain
           /\ ~r.plain =>
                /\ r.mdd_date \in Days
                /\ Drawdown(r.mdd_date) = r.mdd
                /\ \A i \in 1..(r.mdd_date - 1) : RGt(Drawdown(i), r.mdd)
                /\ r.peak_date \in 1..r.mdd_date
                /\ call.values[r.peak_date] = RunningMax(r.mdd_date)
                /\ \A i \in 1..(r.peak_date - 1) :
                      RLt(call.values[i], RunningMax(r.mdd_date))
                /\ IF r.recovery_date = 0
                   THEN \A i \in r.mdd_date..Len(call.values) :
                            RLt(call.values[i], RunningMax(r.mdd_date))
                   ELSE /\ r.recovery_date \in r.mdd_date..Len(call.values)
                        /\ RGe(call.values[r.recovery_date], RunningMax(r.mdd_date))
                        /\ \A i \in r.mdd_date..(r.recovery_date - 1) :
                              RLt(call.values[i], RunningMax(r.mdd_date))
           /\ call.values = <<Rat(100), Rat(80), Rat(120)>> =>
                r = [mdd |-> Frac(-1, 5), plain |-> FALSE, peak_date |-> 1,
                     mdd_date |-> 2, recovery_date |-> 3]

\* the series [100, 80, 120] has been evaluated
C16_Witness ==
    /\ returned.fn = "mdd"
    /\ call.values = <<Rat(100), Rat(80), Rat(120)>>
    /\ returned.value.recovery_date = 3

\* the rows of the history of the call that fall in year y, the last total
\* value of year y, and the value year y is measured against: the last
\* value of the year before it on the axis, or the first value of y itself
\* when y is the first year
YearRows(y) == {r \in 1..Len(call.history) : call.index[r].year = y}

YearEnd(y) ==
    call.history[CHOOSE r \in YearRows(y) : \A q \in YearRows(y) : q <= r].TotalValue

YearBase(y) ==
    LET earlier == {call.index[r].year : r \in 1..Len(call.history)} \cap 0..(y - 1)
    IN IF earlier = {}
       THEN call.history[CHOOSE r \in YearRows(y) : \A q \in YearRows(y) : r <= q].TotalValue
       ELSE YearEnd(CHOOSE x \in earlier : \A z \in earlier : z <= x)

\* the quotient a / b less one, undefined for b = 0
GrowthOver(a, b) == IF b = Zero THEN NaN ELSE RSub(RDiv(a, b), Rat(1))

\* C17 as stated: the annual return of every year of the axis is the last
\* value of the year over the last value of the preceding year (the first
\* value of the year, for the first year), less one.  Violated when that
\* divisor is 0: the return reported is then 0.
C17_AnnualReturnQuotient ==
    returned.fn = "annual" =>
        /\ DOMAIN returned.value = {call.index[r].year : r \in 1..Len(call.history)}
        /\ \A y \in DOMAIN returned.value :
              returned.value[y] = GrowthOver(YearEnd(y), YearBase(y))

\* C17, amended: the annual return of a year is that quotient less one when
\* the divisor is positive and 0 otherwise; it depends on the total values
\* alone, no withdrawal of the year is added back.
C17_AnnualReturn ==
    returned.fn = "annual" =>
        /\ DOMAIN returned.value = {call.index[r].year : r \in 1..Len(call.history)}
        /\ \A y \in DOMAIN returned.value :
              returned.value[y] = IF RGt(YearBase(y), Zero)
                                  THEN GrowthOver(YearEnd(y), YearBase(y))
                                  ELSE Zero

\* a year with a withdrawal follows another year, and its return is the
\* quotient of the two year-end values
C17_Witness ==
    /\ returned.fn = "annual"
    /\ Len(call.history) = 3
    /\ call.index[1].year = 2020 /\ call.index[2].year = 2021 /\ call.index[3].year = 2021
    /\ call.history[1].TotalValue = Rat(100)
    /\ call.history[3].TotalValue = Rat(80)
    /\ call.history[2].Withdrawal = Rat(20)
    /\ returned.value[2021] = Frac(-1, 5)

\* what the table of the call holds for a field of the symbol on the date:
\* absent when the table has no such date, no such column (in a table keyed
\* by symbol: no column of that field for the symbol) or no value there
CellOf(field) ==
    IF call.dt \notin 1..Len(call.df.index) THEN NaN
    ELSE IF call.df.multi
         THEN IF <<field, call.ticker>> \in call.df.columns
              THEN call.df.data[call.dt][<<field, call.ticker>>] ELSE NaN
         ELSE IF field \in call.df.columns
              THEN call.df.data[call.dt][field] ELSE NaN

\* C18: get_stock_data returns for every table, date and symbol; neither
\* adj_close nor adj_open is NaN; both are 0 when the open, the close and
\* the adjusted close of the symbol on the date are all absent, which
\* includes a date or a symbol the table lacks.
C18_ResolverTotal ==
    call.fn = "get_stock_data" =>
        /\ ENABLED CallGetStockData \/ returned.fn = "get_stock_data"
        /\ returned.fn = "get_stock_data" =>
              /\ ~isna(returned.value.adj_close)
              /\ ~isna(returned.value.adj_open)
              /\ (\A field \in Fields : isna(CellOf(field)))
                    => returned.value = [adj_close |-> Zero, adj_open |-> Zero]

\* the resolver has answered zeros for a symbol the keyed table lacks
C18_Witness ==
    /\ returned.fn = "get_stock_data"
    /\ call.df.multi
    /\ call.dt = 1
    /\ Len(call.df.index) = 1
    /\ call.ticker = "SPY"
    /\ ~isna(call.df.data[1][<<"Open", "QQQ">>])
    /\ returned.value = [adj_close |-> Zero, adj_open |-> Zero]

\* ------------------------------------------------------------------------
\* The day loop over several years
\* ------------------------------------------------------------------------
\* One action is one pass of the body of "for d in dates".  The date axis
\* holds the days the data source returned: here the first trading day of
\* a month, followed by that of the next month or of the next January.

MaxYearDays == 4

LaterDates(date) ==
    {[year |-> date.year + 1, month |-> 1]}
    \cup (IF date.month = 12 THEN {}
          ELSE {[year |-> date.year, month |-> date.month + 1]})

\* a price of one sixteenth, to which a price can collapse
Penny == [Open |-> Frac(1, 16), Close |-> Frac(1, 16), AdjClose |-> Frac(1, 16)]

\* portfolios that withdraw 75% a year, inflated by 12.5%, from the first,
\* second or third year on
YearsStart ==
    /\ portfolio \in {MakePortfolio(DefaultName, a,
                                    [withdrawal_enabled |-> TRUE, w_rate |-> Rat(75),
                                     w_inflation |-> Frac(25, 2), w_start_year |-> y]) :
                         a \in {<<Asset("QQQ", 100)>>,
                                <<Asset(CASH0, 50), Asset("QQQ", 50)>>},
                         y \in {1, 2, 3}}
    /\ initial_capital = 8
    /\ monthly_investment \in {0, 4}
    /\ enable_rebalance \in BOOLEAN
    /\ market_data = [multi |-> TRUE, columns |-> ColumnsOf(PricedKeys(portfolio)),
                      index |-> <<>>, data |-> <<>>]
    /\ sim = SimInit(portfolio, initial_capital, 1)
    /\ pc = "day_start"
    /\ portfolios = <<portfolio>>
    /\ selected_portfolio_idx = 1
    /\ options = Names(portfolios)
    /\ date_ok = TRUE
    /\ simulated = <<>>
    /\ clicks = 0
    /\ run_pc = "simulate"
    /\ all_tickers = PricedKeys(portfolio)
    /\ valid_starts = <<>>
    /\ common_start = 1
    /\ results_list = <<>>
    /\ owned = <<>>
    /\ fetched = market_data
    /\ monthly_dfs = <<>>
    /\ annual_returns_data = <<>>
    /\ call = NoCall
    /\ returned = NoCall
    /\ results = None

\* the rows the table can hold for ticker t on the next day: a price that
\* has collapsed stays collapsed
RowsAfter(t) ==
    IF today > 0 /\ market_data.data[today][<<"Open", t>>] = Penny.Open
    THEN {Penny}
    ELSE {Flat1, Adjusted32, Penny}

\* the body of "for d in dates" for the next day of the axis
WholeDay ==
    /\ today < MaxYearDays
    /\ \E date \in (IF today = 0 THEN {[year |-> 1, month |-> 1]}
                    ELSE LaterDates(market_data.index[today])),
          choice \in {c \in [PricedKeys(portfolio) -> {Flat1, Adjusted32, Penny}] :
                        \A t \in PricedKeys(portfolio) : c[t] \in RowsAfter(t)} :
          LET df == [market_data EXCEPT
                        !.index = Append(@, date),
                        !.data = Append(@, RowOf(PricedKeys(portfolio), choice))]
          IN /\ market_data' = df
             /\ sim' = DayStep(sim, portfolio, df, today + 1, enable_rebalance,
                               monthly_investment)
    /\ UNCHANGED <<portfolio, initial_capital, monthly_investment, enable_rebalance,
                   pc, uiVars, runVars, calcVars>>

NextYears ==
    \/ WholeDay

SpecYears == YearsStart /\ [][NextYears]_vars

\* the local variables after the first k days of the axis
AfterDays(k) ==
    SimulateFrom(SimInit(portfolio, initial_capital, 1), portfolio, market_data, 1, k,
                 enable_rebalance, monthly_investment)

\* day k opens a year: it is the first day, or its year differs from the
\* year of the day before
OpensYear(k) == k = 1 \/ market_data.index[k].year # market_data.index[k - 1].year

RECURSIVE RPow(_, _)
RPow(x, n) == IF n = 0 THEN Rat(1) ELSE RMul(x, RPow(x, n - 1))

\* C19: a withdrawal budget that is not 0 was set on a day k that opens a
\* year, to B = (cash and holdings as the day found them, priced at the
\* adjusted close of day k) x withdrawal rate, whatever the number of
\* years elapsed before day k; since then it has only been multiplied by
\* (1 + inflation) at each of the n year boundaries after day k, so it is
\* B x (1 + inflation)^n.
C19_BudgetFixedAndInflated ==
    sim.ann_budg # Zero =>
        \E k \in 1..today :
            /\ OpensYear(k)
            /\ AfterDays(k - 1).ann_budg = Zero
            /\ LET B == RMul(ValueAtClose(AfterDays(k - 1).cash_account,
                                          AfterDays(k - 1).holdings,
                                          HoldingKeys(portfolio), 1, market_data, k),
                             RDiv(portfolio.w_rate, Rat(100)))
                   n == Cardinality({j \in (k + 1)..today : OpensYear(j)})
               IN /\ B # Zero
                  /\ sim.ann_budg =
                        RMul(B, RPow(RAdd(Rat(1), RDiv(portfolio.w_inflation, Rat(100))), n))

\* a budget first set in the third year, after two elapsed years, has been
\* through one more year boundary
C19_Witness ==
    /\ portfolio.w_start_year = 3
    /\ sim.yr_cnt = 3
    /\ AfterDays(today - 1).yr_cnt = 2
    /\ RGt(AfterDays(today - 1).ann_budg, Zero)
    /\ sim.ann_budg = RMul(AfterDays(today - 1).ann_budg, Frac(9, 8))

\* the withdrawal of today finds less in the cash account than its target
Shortfall ==
    /\ pc = "withdrawal"
    /\ sim.is_buy /\ portfolio.withdrawal_enabled /\ RGt(sim.ann_budg, Zero)
    /\ RLt(sim.cash_account, RDiv(sim.ann_budg, Rat(12)))

\* what drawing need from the holdings from position i on leaves behind,
\* holding by holding: first the holding's own sub-bucket, then for a
\* non-cash holding priced above 0 the sale of min(ceil(need / adjusted
\* open), shares) whole shares, of whose proceeds the part beyond the need
\* goes to the cash account.  With sleeve = FALSE the CASH0 holding is
\* passed over.
RECURSIVE DrawFrom(_, _, _, _)
DrawFrom(i, need, acc, sleeve) ==
    IF i > Len(HoldingKeys(portfolio)) \/ RLe(need, Zero) THEN acc
    ELSE LET t == HoldingKeys(portfolio)[i]
             h == acc.holdings[t]
             from_bucket == IF t = CASH0 /\ ~sleeve THEN Zero
                            ELSE RMin(h.cash_asset_currency, need)
             need1 == RSub(need, from_bucket)
             sell == IF t # CASH0 /\ RGt(need1, Zero) /\ RGt(OpenOf(t), Zero)
                     THEN Min(RCeil(RDiv(need1, OpenOf(t))), h.shares)
                     ELSE 0
             proceeds == IF sell = 0 THEN Zero ELSE RMul(Rat(sell), OpenOf(t))
             paid == RMin(proceeds, need1)
         IN DrawFrom(i + 1, RSub(need1, paid),
                     [holdings |-> [acc.holdings EXCEPT
                                       ![t] = [shares |-> h.shares - sell,
                                               cash_asset_currency |->
                                                   RSub(h.cash_asset_currency, from_bucket)]],
                      cash_account |-> RAdd(acc.cash_account, RSub(proceeds, paid)),
                      todays_wd |-> RAdd(acc.todays_wd, RAdd(from_bucket, paid))],
                     sleeve)

\* the outcome of covering today's shortfall: the cash account is emptied
\* into the withdrawal and the rest of the target is drawn from the holdings
Covered(sleeve) ==
    DrawFrom(1, RSub(RDiv(sim.ann_budg, Rat(12)), sim.cash_account),
             [holdings |-> sim.holdings, cash_account |-> Zero,
              todays_wd |-> sim.cash_account],
             sleeve)

\* C20 as stated: a shortfall is drawn from the non-cash holdings only, the
\* CASH0 holding keeps its sub-bucket.  Violated: the sub-bucket of CASH0
\* is drawn like that of any other holding.
C20_NonCashOnly ==
    [][Shortfall /\ pc' # pc =>
          /\ sim'.holdings = Covered(FALSE).holdings
          /\ sim'.cash_account = Covered(FALSE).cash_account
          /\ sim'.todays_wd = Covered(FALSE).todays_wd]_vars

\* C20, amended: a shortfall is drawn from the holdings in the order of the
\* portfolio, from the sub-bucket of every holding, CASH0 included, and
\* then, for a non-cash holding with a positive adjusted open, by selling
\* min(ceil(need / adjusted open), shares held) whole shares at adjusted
\* open; proceeds beyond the need are credited to the cash account.
C20_ShortfallFromHoldings ==
    [][Shortfall /\ pc' # pc =>
          /\ sim'.holdings = Covered(TRUE).holdings
          /\ sim'.cash_account = Covered(TRUE).cash_account
          /\ sim'.todays_wd = Covered(TRUE).todays_wd]_vars

\* a shortfall has just been covered by the sale of shares of QQQ, whose
\* proceeds beyond the need are in the cash account (which the shortfall
\* had emptied)
C20_Witness ==
    /\ pc = NextPc("withdrawal")
    /\ sim.is_buy
    /\ <<"withdrawal", "QQQ">> \in sim.lookups
    /\ sim.todays_wd = RDiv(sim.ann_budg, Rat(12))
    /\ RGt(sim.todays_wd, Zero)
    /\ RGt(sim.cash_account, Zero)
    /\ sim.holdings["QQQ"].cash_asset_currency = Zero

\* ------------------------------------------------------------------------
\* Properties of the rebalancing, the contribution and the cash flows
\* ------------------------------------------------------------------------

\* the rebalancing of today is about to run
Rebalancing ==
    pc = "rebalance" /\ RebalanceDue(sim, market_data, today, enable_rebalance)

\* C21 as stated: in the rebalancing the current value of a non-cash
\* holding is shares x adjusted open plus its cash sub-bucket, that of
\* CASH0 its bucket, and the total every target is computed from is their
\* sum plus the cash account.  Violated: the sub-bucket of a non-cash
\* holding is left out of both.
C21_RebalanceValuation ==
    Rebalancing =>
        LET value == [t \in KeySet(portfolio) |->
                        IF t = CASH0 THEN sim.holdings[t].cash_asset_currency
                        ELSE RAdd(RMul(Rat(sim.holdings[t].shares), OpenOf(t)),
                                  sim.holdings[t].cash_asset_currency)]
        IN /\ cur_vals(sim, portfolio, market_data, today) = value
           /\ tot_pv(sim, portfolio, market_data, today)
                 = RAdd(sim.cash_account, RSum(value, KeySet(portfolio)))

\* C22 as stated: the contribution step of a buy day distributes the whole
\* pot (the cash account after the monthly contribution): the sub-bucket of
\* each holding receives pot x its target weight, before shares are bought
\* out of it at adjusted open; what the sub-buckets receive sums to the
\* pot and the cash account is 0 afterwards.  Violated for a ticker listed
\* twice and for weights that do not sum to 100: part of the pot vanishes.
C22_Step ==
    (pc = "contribution" /\ sim.is_buy) =>
        LET pot == RAdd(sim.cash_account, Rat(monthly_investment))
            received == [t \in KeySet(portfolio) |->
                            RSub(RAdd(sim'.holdings[t].cash_asset_currency,
                                      IF t = CASH0 THEN Zero
                                      ELSE RMul(Rat(sim'.holdings[t].shares
                                                    - sim.holdings[t].shares),
                                                OpenOf(t))),
                                 sim.holdings[t].cash_asset_currency)]
        IN /\ \A t \in KeySet(portfolio) :
                 received[t] = RMul(pot, alloc_map(portfolio)[t])
           /\ RSum(received, KeySet(portfolio)) = pot
           /\ sim'.cash_account = Zero

C22_PotDistributed == [][C22_Step]_vars

\* the non-cash holdings whose open is 0 in today's row of the table, so
\* that their adjusted open is 0
ZeroPriced ==
    {t \in PricedKeys(portfolio) : market_data.data[today][<<"Open", t>>] = Zero}

\* C24: on a buy day, a non-cash holding whose adjusted open is 0 has no
\* share bought or sold by the withdrawal, the rebalancing or the
\* contribution; each of these steps completes and hands over to the next;
\* and what the contribution allocates to the holding, pot x weight, stays
\* in its cash sub-bucket.
C24_Step ==
    (pc \in {"withdrawal", "rebalance", "contribution"} /\ sim.is_buy) =>
        /\ pc' = NextPc(pc)
        /\ \A t \in ZeroPriced :
              /\ sim'.holdings[t].shares = sim.holdings[t].shares
              /\ pc = "contribution" =>
                    sim'.holdings[t].cash_asset_currency =
                        RAdd(sim.holdings[t].cash_asset_currency,
                             RMul(RAdd(sim.cash_account, Rat(monthly_investment)),
                                  alloc_map(portfolio)[t]))

C24_ZeroPriceNoTrade == [][C24_Step]_vars

\* a January buy day after the first year: SPY, of which shares are held,
\* has an open of 0; a withdrawal was paid out of the holdings, SPY first
\* and QQQ after it, the rebalancing was due and a contribution was
\* allocated, and the day is about to be valued
C24_Witness ==
    /\ pc = "valuation"
    /\ sim.is_buy /\ enable_rebalance /\ Today.month = 1 /\ sim.yr_cnt > 0
    /\ monthly_investment > 0
    /\ RGt(sim.todays_wd, Zero)
    /\ HoldingKeys(portfolio) = <<"SPY", "QQQ">>
    /\ <<"withdrawal", "QQQ">> \in sim.lookups
    /\ "SPY" \in ZeroPriced
    /\ sim.holdings["SPY"].shares > 0
    /\ RGt(sim.holdings["SPY"].cash_asset_currency, Zero)

\* day d of the axis is a buy day: the first day, or a day whose month
\* differs from that of the day before
BuyDay(d) == d = 1 \/ market_data.index[d].month # market_data.index[d - 1].month

\* the cash flows the days 1..d give rise to, in the order of the days: a
\* positive flow for a day with a positive withdrawal and a negative flow
\* of the monthly amount for a buy day (a monthly amount of 0 gives no
\* negative flow)
RECURSIVE DailyFlows(_)
DailyFlows(d) ==
    IF d = 0 THEN <<>>
    ELSE DailyFlows(d - 1)
         \o (IF RGt(sim.history[d].Withdrawal, Zero)
             THEN <<[date |-> d, amount |-> sim.history[d].Withdrawal]>> ELSE <<>>)
         \o (IF BuyDay(d) /\ monthly_investment > 0
             THEN <<[date |-> d, amount |-> Rat(-monthly_investment)]>> ELSE <<>>)

\* the whole list: the initial capital on the first day if it is above 0,
\* the flows of the days, and the final total value on the last day if it
\* is above 0
ExpectedFlows ==
    (IF initial_capital > 0
     THEN <<[date |-> 1, amount |-> Rat(-initial_capital)]>> ELSE <<>>)
    \o DailyFlows(today)
    \o (IF RGt(LastRow(sim).TotalValue, Zero)
        THEN <<[date |-> today, amount |-> LastRow(sim).TotalValue]>> ELSE <<>>)

\* the sum of the amounts of the first i flows of list fl that are negative
\* (sign = -1) or positive (sign = 1)
RECURSIVE FlowSum(_, _, _)
FlowSum(fl, i, sign) ==
    IF i = 0 THEN Zero
    ELSE RAdd(IF fl[i].amount[1] * sign > 0 THEN fl[i].amount ELSE Zero,
              FlowSum(fl, i - 1, sign))

FlowTotals ==
    /\ FlowSum(sim.xirr_flows, Len(sim.xirr_flows), -1) = RSub(Zero, sim.total_invested)
    /\ FlowSum(sim.xirr_flows, Len(sim.xirr_flows), 1)
          = RAdd(sim.cum_wd,
                 IF RGt(LastRow(sim).TotalValue, Zero)
                 THEN LastRow(sim).TotalValue ELSE Zero)

\* C25: at the end of a simulation the cash-flow list holds the
\* negative initial capital dated the first day (only if it is above 0),
\* one negative flow of the monthly amount for each buy day (none for a
\* monthly amount of 0), one positive flow for each day with a
\* positive withdrawal, and one terminal positive flow of the final total
\* value iff that value is above 0; the negative flows sum to minus
\* total_invested and the withdrawal flows to the cumulative withdrawal.
C25_CashFlows ==
    pc = "done" =>
        /\ sim.xirr_flows = ExpectedFlows
        /\ FlowTotals

\* a finished simulation whose list holds all four kinds of flow
C25_Witness ==
    /\ pc = "done"
    /\ initial_capital > 0 /\ monthly_investment > 0
    /\ RGt(sim.cum_wd, Zero)
    /\ RGt(LastRow(sim).TotalValue, Zero)
    /\ Len(sim.xirr_flows) >= 6

\* ------------------------------------------------------------------------
\* Properties of the withdrawal over whole days
\* ------------------------------------------------------------------------

\* the state in which the withdrawal of the day WholeDay adds finds the
\* simulation, and the state it leaves
BeforeWithdrawal ==
    YearBoundaryStep(sim, portfolio, market_data', today + 1)

AfterWithdrawal ==
    WithdrawalStep(BeforeWithdrawal, portfolio, market_data', today + 1)

\* adjusted open of ticker t on the day WholeDay adds
NextOpen(t) == get_stock_data(market_data', today + 1, t).adj_open

\* L: the cash account, every cash sub-bucket and the shares of every
\* non-cash holding with a positive adjusted open, at that open, as the
\* day finds them
Liquid ==
    LET v == [t \in KeySet(portfolio) |->
                 RAdd(sim.holdings[t].cash_asset_currency,
                      IF t # CASH0 /\ RGt(NextOpen(t), Zero)
                      THEN RMul(Rat(sim.holdings[t].shares), NextOpen(t))
                      ELSE Zero)]
    IN RAdd(sim.cash_account, RSum(v, KeySet(portfolio)))

\* C26: on a buy day with a budget above 0 the amount withdrawn, which is
\* the withdrawal the day records, is min(budget / 12, L): never more than
\* the monthly target, and less only when the withdrawal has emptied every
\* sub-bucket and sold every share that has a positive adjusted open.
C26_Step ==
    (sim'.is_buy /\ RGt(sim'.ann_budg, Zero)) =>
        LET target == RDiv(sim'.ann_budg, Rat(12))
            withdrawn == sim'.history[Len(sim'.history)].Withdrawal
        IN /\ withdrawn = RMin(target, Liquid)
           /\ RLe(withdrawn, target)
           /\ AfterWithdrawal.todays_wd = withdrawn
           /\ RLt(withdrawn, target) =>
                 \A t \in KeySet(portfolio) :
                    /\ AfterWithdrawal.holdings[t].cash_asset_currency = Zero
                    /\ (t # CASH0 /\ RGt(NextOpen(t), Zero))
                          => AfterWithdrawal.holdings[t].shares = 0

C26_WithdrawnIsMin == [][C26_Step]_vars

\* a buy day whose withdrawal fell short of the monthly target after
\* selling shares: less was withdrawn than budget / 12, and more than 0
C26_Witness ==
    /\ today > 0
    /\ sim.is_buy
    /\ RGt(LastRow(sim).Withdrawal, Zero)
    /\ RLt(LastRow(sim).Withdrawal, RDiv(sim.ann_budg, Rat(12)))
    /\ <<"withdrawal", "QQQ">> \in sim.lookups

\* ------------------------------------------------------------------------
\* Properties of the cash account between the steps
\* ------------------------------------------------------------------------

\* the withdrawal step is about to act: the day is a buy day, withdrawals
\* are enabled and the budget is above 0
WithdrawalPending ==
    /\ pc = "withdrawal"
    /\ sim.is_buy
    /\ portfolio.withdrawal_enabled
    /\ RGt(sim.ann_budg, Zero)

\* C27 as stated: at the end of every processed day the cash account is 0,
\* hence it is 0 at the start of every withdrawal step and adds 0 to every
\* recorded total value.
C27_CashZeroAtEveryWithdrawal ==
    /\ (today > 0 /\ pc \in {"day_start", "done"}) => sim.cash_account = Zero
    /\ WithdrawalPending => sim.cash_account = Zero
    /\ (today > 0 /\ pc \in {"day_start", "done"}) =>
          LastRow(sim).TotalValue =
              ValueAtClose(Zero, sim.holdings, HoldingKeys(portfolio), 1,
                           market_data, today)

\* C27, amended: at the end of every processed day the cash account is 0
\* and it adds 0 to every recorded total value; it is 0 at the start of
\* every withdrawal step but that of the first day, which starts with the
\* initial capital in the cash account.
C27_CashSwept ==
    /\ (today > 0 /\ pc \in {"valuation", "day_start", "done"})
          => sim.cash_account = Zero
    /\ (pc = "withdrawal" /\ today > 1) => sim.cash_account = Zero
    /\ (pc = "withdrawal" /\ today = 1)
          => sim.is_buy /\ sim.cash_account = Rat(initial_capital)
    /\ (today > 0 /\ pc \in {"day_start", "done"}) =>
          LastRow(sim).TotalValue =
              ValueAtClose(Zero, sim.holdings, HoldingKeys(portfolio), 1,
                           market_data, today)

\* a withdrawal about to act on a later day, after a day that brought
\* capital and a monthly investment into the cash account
C27_Witness ==
    /\ WithdrawalPending
    /\ today > 1
    /\ initial_capital > 0
    /\ monthly_investment > 0
    /\ sim.cash_account = Zero

\* ------------------------------------------------------------------------
\* Conservation of value at the day's adjusted opens
\* ------------------------------------------------------------------------

\* C28: valued at the day's adjusted opens (cash account, every
\* sub-bucket, shares x adjusted open of every non-cash holding), the
\* portfolio loses to the withdrawal step exactly the amount withdrawn and
\* keeps its value through the rebalancing step.
C28_Step ==
    /\ pc = "withdrawal" =>
          LiquidAtOpen(sim') = RSub(LiquidAtOpen(sim), sim'.todays_wd)
    /\ pc = "rebalance" => LiquidAtOpen(sim') = LiquidAtOpen(sim)

C28_ValueConserved == [][C28_Step]_vars

\* after a withdrawal that sold shares of QQQ and a rebalancing that ran
\* with money in the cash account left over from its trades
C28_Witness ==
    /\ pc = "contribution"
    /\ RGt(sim.todays_wd, Zero)
    /\ <<"withdrawal", "QQQ">> \in sim.lookups
    /\ <<"rebalance", "QQQ">> \in sim.lookups
    /\ RGt(sim.cash_account, Zero)
    /\ sim.holdings["QQQ"].shares > 0

\* ------------------------------------------------------------------------
\* A run whose portfolios hold nothing but CASH0
\* ------------------------------------------------------------------------

\* no portfolio of the list has a symbol other than CASH0, and some
\* portfolio has CASH0
OnlyCash0 ==
    /\ \A i \in 1..Len(portfolios) : KeySet(portfolios[i]) \subseteq {CASH0}
    /\ \E i \in 1..Len(portfolios) : CASH0 \in KeySet(portfolios[i])

\* C29: a run of portfolios that hold nothing but CASH0 passes the test
\* for a list without any asset and never reaches the simulator: it stops
\* at the fetch or at the search for a first valid date, which finds none,
\* and every way it stops is an error that leaves the stored results None.
C29_OnlyCash0NeverSimulated ==
    OnlyCash0 =>
        /\ run_pc \in {"collect", "fetch", "error", "empty", "valid_starts",
                       "no_valid_start"}
        /\ run_pc # "collect" => all_tickers = {}
        /\ run_pc = "valid_starts" =>
              \A order \in IterationOrders(all_tickers) :
                  CollectStarts(market_data, order) = <<>>
        /\ valid_starts = <<>>
        /\ results_list = <<>>
        /\ simulated = <<>>
        /\ run_pc \in {"error", "empty", "no_valid_start"} => results = None

\* a run of one 100% CASH0 portfolio that fetched a table with rows and
\* stopped for want of a first valid date
C29_Witness ==
    /\ Len(portfolios) = 1
    /\ HoldingKeys(portfolios[1]) = <<CASH0>>
    /\ Len(fetched.index) > 0
    /\ run_pc = "no_valid_start"
    /\ results = None

\* ------------------------------------------------------------------------
\* The rebalancing in binary64
\* ------------------------------------------------------------------------
\* The amounts of the source are Python floats, IEEE 754 binary64 numbers,
\* and every + - * / of the source rounds its result to 53 bits. The
\* definitions above compute amounts as exact rationals. A decimal price
\* such as 0.05 is no binary fraction, and on such prices the rounding of
\* an operation can decide the sign of an amount; the definitions below
\* compute lines 367-388 and 521-557 in binary64, bit for bit.

\* Whole numbers of any size: the sequence of their digits in base 2^14,
\* lowest first, without leading zero digits
LimbBase == 2^14

\* digit i of a; 0 outside a
Limb(a, i) == IF i >= 1 /\ i <= Len(a) THEN a[i] ELSE 0

\* the position of the highest digit of a that is not 0
Digits(a) ==
    IF \A i \in 1..Len(a) : a[i] = 0 THEN 0
    ELSE CHOOSE i \in 1..Len(a) : a[i] # 0 /\ \A j \in (i + 1)..Len(a) : a[j] = 0

\* the digits of a as a tuple
Tuple(a) == SubSeq(a, 1, Len(a))

Trimmed(a) == SubSeq(a, 1, Digits(a))

\* a without its leading zero digits
BigTrim(a) == Trimmed(Tuple(a))

\* n >= 0 as digits
BigOf(n) ==
    BigTrim(<<n % LimbBase, (n \div LimbBase) % LimbBase, n \div (LimbBase * LimbBase)>>)

\* the value of a, which is below 2^31
BigToInt(a) == Limb(a, 1) + LimbBase * Limb(a, 2) + LimbBase * LimbBase * Limb(a, 3)

\* -1, 0 or 1 as a is below, equal to or above b
BigCmp(a, b) ==
    IF Len(a) # Len(b) THEN (IF Len(a) < Len(b) THEN -1 ELSE 1)
    ELSE IF a = b THEN 0
    ELSE LET i == CHOOSE j \in 1..Len(a) :
                      a[j] # b[j] /\ \A k \in (j + 1)..Len(a) : a[k] = b[k]
         IN IF a[i] < b[i] THEN -1 ELSE 1

\* v holds digits below 2 * LimbBase; there is a carry into digit i when a
\* digit below i overflows and every digit between the two is full
CarryInto(v, i) ==
    \E j \in 1..(i - 1) :
        v[j] >= LimbBase /\ \A k \in (j + 1)..(i - 1) : v[k] = LimbBase - 1

\* the digits of the number that v holds
Carried(v) ==
    BigTrim([i \in 1..(Len(v) + 1) |->
                (Limb(v, i) + (IF CarryInto(v, i) THEN 1 ELSE 0)) % LimbBase])

BigAdd(a, b) ==
    Carried(Tuple([i \in 1..(IF Len(a) > Len(b) THEN Len(a) ELSE Len(b)) |->
                      Limb(a, i) + Limb(b, i)]))

\* v holds the differences of the digits; digit i borrows when a digit
\* below it is negative and every digit between the two is 0
BorrowInto(v, i) ==
    \E j \in 1..(i - 1) : v[j] < 0 /\ \A k \in (j + 1)..(i - 1) : v[k] = 0

Borrowed(v) ==
    BigTrim([i \in 1..Len(v) |->
                (v[i] - (IF BorrowInto(v, i) THEN 1 ELSE 0) + LimbBase) % LimbBase])

\* a - b for a >= b
BigSub(a, b) == Borrowed(Tuple([i \in 1..Len(a) |-> a[i] - Limb(b, i)]))

\* the digits of the number whose digit k is col[k], below 2^30
Normal(col) ==
    LET t == Tuple([k \in 1..(Len(col) + 1) |->
                       (Limb(col, k) % LimbBase) + (Limb(col, k - 1) \div LimbBase)])
        u == Tuple([k \in 1..(Len(t) + 1) |->
                       (Limb(t, k) % LimbBase) + (Limb(t, k - 1) \div LimbBase)])
    IN Carried(u)

\* a * c for 0 <= c < 2^14
BigMulSmall(a, c) == Normal(Tuple([k \in 1..Len(a) |-> a[k] * c]))

\* a * b for b of four digits at most
BigMul(a, b) ==
    Normal(Tuple([k \in 1..(Len(a) + Len(b)) |->
                     Limb(a, k) * Limb(b, 1) + Limb(a, k - 1) * Limb(b, 2)
                     + Limb(a, k - 2) * Limb(b, 3) + Limb(a, k - 3) * Limb(b, 4)]))

\* a * 2^k
BigShl(a, k) ==
    BigTrim([i \in 1..(Len(a) + (k \div 14) + 1) |->
                ((Limb(a, i - (k \div 14)) * 2^(k % 14)) % LimbBase)
                + ((Limb(a, i - (k \div 14) - 1) * 2^(k % 14)) \div LimbBase)])

\* floor(a / 2^k)
BigShr(a, k) ==
    BigTrim([i \in 1..Len(a) |->
                (Limb(a, i + (k \div 14)) \div 2^(k % 14))
                + ((Limb(a, i + (k \div 14) + 1) % 2^(k % 14)) * 2^(14 - (k % 14)))])

\* the number of bits of 0 < x < 2^14
BitLen(x) == CHOOSE k \in 1..14 : x < 2^k /\ x >= 2^(k - 1)

BigBitLen(a) == IF a = <<>> THEN 0 ELSE 14 * (Len(a) - 1) + BitLen(a[Len(a)])

BigIsOdd(a) == a # <<>> /\ a[1] % 2 = 1

\* floor(t / d) for t < d * 2^14 and the top digit of d at least 2^13: the
\* estimate from the top digits is at most two too large
QuotDigit(t, d) ==
    LET top == (Limb(t, Len(d) + 1) * LimbBase + Limb(t, Len(d))) \div d[Len(d)]
        est == IF top < LimbBase THEN top ELSE LimbBase - 1
    IN IF BigCmp(BigMulSmall(d, est), t) <= 0 THEN est
       ELSE IF BigCmp(BigMulSmall(d, est - 1), t) <= 0 THEN est - 1
       ELSE est - 2

\* long division from digit i of n down; q and r are the quotient and the
\* remainder of the digits above
RECURSIVE DivFrom(_, _, _, _, _)
DivFrom(n, d, i, q, r) ==
    IF i = 0 THEN [q |-> BigTrim(q), r |-> r]
    ELSE IF BigCmp(BigTrim(<<n[i]>> \o r), d) < 0
    THEN DivFrom(n, d, i - 1, <<0>> \o q, BigTrim(<<n[i]>> \o r))
    ELSE DivFrom(n, d, i - 1,
                 <<QuotDigit(<<n[i]>> \o r, d)>> \o q,
                 BigSub(<<n[i]>> \o r,
                        BigMulSmall(d, QuotDigit(<<n[i]>> \o r, d))))

\* the quotient of n by d > 0, and a remainder that is 0 when the division
\* leaves none; both are shifted to bring the top digit of d to 2^13 or more
BigDivMod(n, d) ==
    DivFrom(BigShl(n, 14 - BitLen(d[Len(d)])), BigShl(d, 14 - BitLen(d[Len(d)])),
            Len(BigShl(n, 14 - BitLen(d[Len(d)]))), <<>>, <<>>)

\* A double is [s, m, e]: the number s * m * 2^e, s the sign 1 or -1 and m
\* a whole number of 53 bits at most, as digits. The operations round their
\* result to 53 bits, to nearest and on a tie to even.

SignOf(i) == IF i < 0 THEN -1 ELSE 1

\* the element of a set of one element; an operation evaluates its operands
\* once, before it works on them
Only(S) == CHOOSE r \in S : TRUE

\* 0.0
Zero64 == [s |-> 1, m |-> <<>>, e |-> 0]

\* s * m * 2^e rounded to 53 bits; inexact says that the value stands for
\* a number a little above s * m * 2^e in magnitude
Round53(s, m, e, inexact) ==
    LET bits == BigBitLen(m)
        sh == bits - 53
        keep == BigShr(m, sh)
        rem == BigSub(m, BigShl(keep, sh))
        c == BigCmp(rem, BigShl(<<1>>, sh - 1))
        up == c > 0 \/ (c = 0 /\ (inexact \/ BigIsOdd(keep)))
    IN IF bits <= 53 THEN [s |-> s, m |-> m, e |-> e]
       ELSE [s |-> s, m |-> IF up THEN BigAdd(keep, <<1>>) ELSE keep, e |-> e + sh]

\* n * 2^en / (d * 2^ed) rounded to a double
DivRound(s, n, en, d, ed) ==
    LET k == IF 55 + BigBitLen(d) - BigBitLen(n) > 0
             THEN 55 + BigBitLen(d) - BigBitLen(n) ELSE 0
        qr == BigDivMod(BigShl(n, k), d)
    IN IF n = <<>> THEN Zero64
       ELSE Round53(s, qr.q, en - ed - k, qr.r # <<>>)

\* the float that holds the number x = <<n, d>>: the double nearest to
\* n / d, which is n / d itself when that is a binary fraction
Double(x) == DivRound(SignOf(x[1]), BigOf(Abs(x[1])), 0, BigOf(x[2]), 0)

\* -1, 0, 1 as |a| is below, equal to or above |b|
CmpAbs(a, b) ==
    LET e == Min(a.e, b.e)
    IN BigCmp(BigShl(a.m, a.e - e), BigShl(b.m, b.e - e))

Compared(a, b) ==
    IF a.m = <<>> /\ b.m = <<>> THEN 0
    ELSE IF a.m = <<>> THEN -b.s
    ELSE IF b.m = <<>> THEN a.s
    ELSE IF a.s # b.s THEN a.s
    ELSE a.s * CmpAbs(a, b)

\* -1, 0, 1 as a < b, a == b, a > b
FCmp(a, b) == Only({Compared(x, y) : x \in {a}, y \in {b}})

FNeg(a) == [a EXCEPT !.s = -@]

Added(a, b) ==
    LET e == Min(a.e, b.e)
        ma == BigShl(a.m, a.e - e)
        mb == BigShl(b.m, b.e - e)
        c == BigCmp(ma, mb)
    IN IF a.m = <<>> THEN b
       ELSE IF b.m = <<>> THEN a
       ELSE IF a.s = b.s THEN Round53(a.s, BigAdd(ma, mb), e, FALSE)
       ELSE IF c = 0 THEN Zero64
       ELSE IF c > 0 THEN Round53(a.s, BigSub(ma, mb), e, FALSE)
       ELSE Round53(b.s, BigSub(mb, ma), e, FALSE)

\* a + b
FAdd(a, b) == Only({Added(x, y) : x \in {a}, y \in {b}})

\* a - b
FSub(a, b) == FAdd(a, FNeg(b))

\* a * b
FMul(a, b) ==
    Only({Round53(x.s * y.s, BigMul(x.m, y.m), x.e + y.e, FALSE) : x \in {a}, y \in {b}})

\* a / b for b != 0
FDiv(a, b) == Only({DivRound(x.s * y.s, x.m, x.e, y.m, y.e) : x \in {a}, y \in {b}})

\* min(a, b) of Python: b when b < a, else a
FMin(a, b) == Only({IF Compared(y, x) < 0 THEN y ELSE x : x \in {a}, y \in {b}})

\* int(a): a without its fraction
FInt(a) ==
    Only({IF x.m = <<>> THEN 0
          ELSE IF x.e >= 0 THEN x.s * BigToInt(BigShl(x.m, x.e))
          ELSE x.s * BigToInt(BigShr(x.m, -x.e)) : x \in {a}})

\* get_stock_data on the floats that hold the numbers of the table
get_stock_data64(df, dt, ticker) ==
    IF ~HasRow(df, dt)
    THEN [adj_close |-> Zero64, adj_open |-> Zero64]
    ELSE
    LET p_open == get_val(df, dt, ticker, "Open")
        p_close == get_val(df, dt, ticker, "Close")
        p_adj0 == get_val(df, dt, ticker, "Adj Close")
        p_adj_close == IF isna(p_adj0)
                       THEN (IF ~isna(p_close) THEN p_close ELSE p_open)
                       ELSE p_adj0
    IN [adj_close |-> IF isna(p_adj_close) THEN Zero64 ELSE Double(p_adj_close),
        adj_open |->
            IF ~isna(p_open) /\ ~isna(p_close) /\ ~isna(p_adj_close)
               /\ p_close # Zero
            THEN FMul(Double(p_open), FDiv(Double(p_adj_close), Double(p_close)))
            ELSE IF ~isna(p_open) THEN Double(p_open)
            ELSE IF ~isna(p_adj_close) THEN Double(p_adj_close)
            ELSE Zero64]

\* the amounts of the state s as floats
InBinary64(s) ==
    [s EXCEPT
        !.cash_account = Double(@),
        !.holdings = [t \in DOMAIN @ |->
                         [@[t] EXCEPT !.cash_asset_currency = Double(@)]]]

\* alloc_map: weight / 100.0
alloc_map64(p) == [t \in KeySet(p) |-> Double(alloc_map(p)[t])]

\* cur_vals of the rebalancing
cur_vals64(s, p, df, d) ==
    [t \in KeySet(p) |->
        IF t = CASH0 THEN s.holdings[t].cash_asset_currency
        ELSE FMul(Double(Rat(s.holdings[t].shares)),
                  get_stock_data64(df, d, t).adj_open)]

\* rebal_prs.get(t, 0)
rebal_prs64(p, df, d, t) ==
    IF t = CASH0 THEN Zero64 ELSE get_stock_data64(df, d, t).adj_open

RECURSIVE AddInOrder(_, _, _, _)
\* acc += f[t] for the keys from i on, in their order
AddInOrder(acc, f, keys, i) ==
    IF i > Len(keys) THEN acc
    ELSE AddInOrder(FAdd(acc, f[keys[i]]), f, keys, i + 1)

\* tot_pv: cash_account, then every holding added in the order of the dict
tot_pv64(s, p, df, d) ==
    AddInOrder(s.cash_account, cur_vals64(s, p, df, d), HoldingKeys(p), 1)

\* the sell pass: acc is [holdings, cash_account]
RECURSIVE RebalSell64(_, _, _, _, _, _, _)
RebalSell64(acc, keys, i, cv, tot, alloc, prs) ==
    IF i > Len(keys) THEN acc
    ELSE
    LET t == keys[i]
        diff == FSub(cv[t], FMul(tot, alloc[t]))
        amt == FMin(diff, acc.holdings[t].cash_asset_currency)
        n == FInt(FDiv(diff, prs[t]))
    IN IF FCmp(diff, Zero64) <= 0 THEN RebalSell64(acc, keys, i + 1, cv, tot, alloc, prs)
       ELSE IF t = CASH0
       THEN RebalSell64(
                [acc EXCEPT !.holdings[t].cash_asset_currency = FSub(@, amt),
                            !.cash_account = FAdd(@, amt)],
                keys, i + 1, cv, tot, alloc, prs)
       ELSE IF FCmp(prs[t], Zero64) > 0 /\ n > 0
       THEN RebalSell64(
                [acc EXCEPT !.holdings[t].shares = @ - n,
                            !.cash_account = FAdd(@, FMul(Double(Rat(n)), prs[t]))],
                keys, i + 1, cv, tot, alloc, prs)
       ELSE RebalSell64(acc, keys, i + 1, cv, tot, alloc, prs)

\* the buy pass
RECURSIVE RebalBuy64(_, _, _, _, _, _, _)
RebalBuy64(acc, keys, i, cv, tot, alloc, prs) ==
    IF i > Len(keys) THEN acc
    ELSE
    LET t == keys[i]
        diff == FSub(FMul(tot, alloc[t]), cv[t])
        amt == FMin(diff, acc.cash_account)
        n == FInt(FDiv(amt, prs[t]))
    IN IF FCmp(diff, Zero64) <= 0 THEN RebalBuy64(acc, keys, i + 1, cv, tot, alloc, prs)
       ELSE IF t = CASH0
       THEN RebalBuy64(
                [acc EXCEPT !.holdings[t].cash_asset_currency = FAdd(@, amt),
                            !.cash_account = FSub(@, amt)],
                keys, i + 1, cv, tot, alloc, prs)
       ELSE IF FCmp(prs[t], Zero64) > 0 /\ n > 0
       THEN RebalBuy64(
                [acc EXCEPT !.holdings[t].shares = @ + n,
                            !.cash_account = FSub(@, FMul(Double(Rat(n)), prs[t]))],
                keys, i + 1, cv, tot, alloc, prs)
       ELSE RebalBuy64(acc, keys, i + 1, cv, tot, alloc, prs)

\* Rebalancing, on a state whose amounts are floats; cur_vals, tot_pv and
\* rebal_prs are computed once, before the two passes
RebalanceStep64(s, p, df, d, enabled) ==
    IF ~RebalanceDue(s, df, d, enabled) THEN s
    ELSE Only({[s EXCEPT
                   !.holdings = bought.holdings,
                   !.cash_account = bought.cash_account,
                   !.lookups = @ \cup {<<"rebalance", t>> : t \in PricedKeys(p)}] :
               bought \in
                   {RebalBuy64(
                        RebalSell64([holdings |-> s.holdings,
                                     cash_account |-> s.cash_account],
                                    HoldingKeys(p), 1, cv, tot, alloc_map64(p), prs),
                        HoldingKeys(p), 1, cv, tot, alloc_map64(p), prs) :
                       cv \in {cur_vals64(s, p, df, d)},
                       tot \in {tot_pv64(s, p, df, d)},
                       prs \in {[t \in KeySet(p) |-> rebal_prs64(p, df, d, t)]}}})

\* the largest initial capital of the simulations in binary64
MaxCapital == 10

\* two tickers at 50/50 and at 25/75
RoundingAssetLists ==
    {<<Asset("SPY", 50), Asset("QQQ", 50)>>,
     <<Asset("SPY", 25), Asset("QQQ", 75)>>}

\* the January quotes: 0.05, 0.1, 1.7 and 2.3 unadjusted, and an open of
\* 3.4 that a close of 2 adjusted to 1 brings to 1.7
DecimalRows ==
    {[Open |-> q, Close |-> q, AdjClose |-> q] :
        q \in {Frac(1, 20), Frac(1, 10), Frac(17, 10), Frac(23, 10)}}
    \cup {[Open |-> Frac(17, 5), Close |-> Rat(2), AdjClose |-> Rat(1)]}

\* the January quotes of the tickers ts
JanuaryRows(ts) == {RowOf(ts, quotes) : quotes \in [ts -> DecimalRows]}

\* a simulation with rebalancing on, without withdrawal and without
\* monthly contribution, before its first day
RoundingStart ==
    /\ portfolio \in {MakePortfolio(DefaultName, a, DefaultWithdrawal) :
                         a \in RoundingAssetLists}
    /\ initial_capital \in 1..MaxCapital
    /\ monthly_investment = 0
    /\ enable_rebalance = TRUE
    /\ market_data = [multi |-> TRUE, columns |-> ColumnsOf(PricedKeys(portfolio)),
                      index |-> <<>>, data |-> <<>>]
    /\ sim = SimInit(portfolio, initial_capital, 1)
    /\ pc = "day_start"
    /\ portfolios = <<portfolio>>
    /\ selected_portfolio_idx = 1
    /\ options = Names(portfolios)
    /\ date_ok = TRUE
    /\ simulated = <<>>
    /\ clicks = 0
    /\ run_pc = "simulate"
    /\ all_tickers = PricedKeys(portfolio)
    /\ valid_starts = <<>>
    /\ common_start = 1
    /\ results_list = <<>>
    /\ owned = <<>>
    /\ fetched = market_data
    /\ monthly_dfs = <<>>
    /\ annual_returns_data = <<>>
    /\ call = NoCall
    /\ returned = NoCall
    /\ results = None

\* the first day is a December day on which every price is 1: every
\* amount of the day is a whole number and no operation rounds
DecemberOpens ==
    /\ today = 0
    /\ DayStart
    /\ market_data'.index[1].month = 12
    /\ market_data'.data[1] =
          RowOf(PricedKeys(portfolio), [t \in PricedKeys(portfolio) |-> Flat1])

\* the steps of the December day after the year-boundary update
DecemberDay ==
    /\ today = 1
    /\ Withdrawal \/ Rebalance \/ Contribution \/ Valuation

\* "for d in dates": the January row, of decimal quotes, then the
\* year-boundary update and the withdrawal step, which is off
JanuaryOpens ==
    /\ pc = "day_start"
    /\ today = 1
    /\ \E row \in JanuaryRows(PricedKeys(portfolio)) :
          LET df == [market_data EXCEPT
                        !.index = Append(@, [year |-> 2, month |-> 1]),
                        !.data = Append(@, row)]
          IN /\ market_data' = df
             /\ sim' = WithdrawalStep(YearBoundaryStep(sim, portfolio, df, 2),
                                      portfolio, df, 2)
    /\ pc' = NextPc("withdrawal")
    /\ UNCHANGED <<portfolio, initial_capital, monthly_investment, enable_rebalance,
                   uiVars, runVars, calcVars>>

\* the rebalancing of the January day, lines 521-557, in binary64
JanuaryRebalance ==
    /\ pc = "rebalance"
    /\ today = 2
    /\ sim' = RebalanceStep64(InBinary64(sim), portfolio, market_data, today,
                              enable_rebalance)
    /\ pc' = NextPc("rebalance")
    /\ UNCHANGED <<portfolio, initial_capital, monthly_investment, enable_rebalance,
                   market_data, uiVars, runVars, calcVars>>

NextRounding == DecemberOpens \/ DecemberDay \/ JanuaryOpens \/ JanuaryRebalance

SpecRounding == RoundingStart /\ [][NextRounding]_vars

\* C23: in every state of a simulation, whatever withdrawals, rebalancings
\* and contributions have run, the share count of every holding is a whole
\* number that is not negative, every cash sub-bucket is at least 0 and the
\* cash account is at least 0.
C23_NothingNegative ==
    LET amount(x) == IF pc = "contribution" /\ today = 2 THEN x ELSE Double(x)
    IN /\ FCmp(amount(sim.cash_account), Zero64) >= 0
       /\ \A t \in KeySet(portfolio) :
             /\ sim.holdings[t].shares \in Nat
             /\ FCmp(amount(sim.holdings[t].cash_asset_currency), Zero64) >= 0

=============================================================================
